---------------------------- MODULE Spec2Model ----------------------------
(***************************************************************************)
(* Model of fastcc: the topic router (src/src/fastcc/router.py), the       *)
(* application's message handling (src/src/fastcc/app.py) with the         *)
(* client's publish (src/src/fastcc/client.py), the codec                  *)
(* registry (src/src/fastcc/codec.py) and the built-in codecs              *)
(* (src/src/fastcc/serialization.py).                                      *)
(*                                                                         *)
(* Strings are sequences of one-character strings, so that splitting,      *)
(* placeholder scanning and regular-expression matching are computed       *)
(* character by character as the Python code computes them.                *)
(***************************************************************************)
EXTENDS Integers, Sequences, FiniteSets, TLC

VARIABLES
    prefix,     \* Router._prefix
    routes,     \* Router._routes, a Python set of _Route values
    iterOrder,  \* the order in which iterating Router._routes yields its elements
    regOrder,   \* history: the routes in the order they were first added
    last,       \* outcome of the most recent operation
    subrouters, \* Router._routes of the other routers, by router name
    listening,  \* FastCC.__listen is still consuming messages
    published,  \* the responses handed to Client.publish, in order
    codecs_by_order,  \* CodecRegistry._codecs_by_order
    codecs_by_tag,    \* CodecRegistry._codecs_by_tag
    registering       \* the codec a thread inside register has put in the
                      \* probe order and not yet in the tag index

routerVars == <<prefix, routes, iterOrder, regOrder>>

appVars == <<listening, published>>

codecVars == <<codecs_by_order, codecs_by_tag, registering>>

vars == <<prefix, routes, iterOrder, regOrder, last, subrouters, listening,
          published, codecs_by_order, codecs_by_tag, registering>>

-----------------------------------------------------------------------------
(* Strings *)

Str(s) == [i \in 1..Len(s) |-> SubSeq(s, i, i)]

Chars(s) == {s[i] : i \in 1..Len(s)}

\* the element of a set of one element: names a value that is computed once
The(S) == CHOOSE x \in S : TRUE

Min(S) == CHOOSE m \in S : \A n \in S : m <= n

Max(S) == CHOOSE m \in S : \A n \in S : n <= m

SeqToSet(q) == {q[i] : i \in 1..Len(q)}

-----------------------------------------------------------------------------
(* fastcc/constants.py *)

TOPIC_SEPARATOR == "/"

SINGLE_LEVEL_WILDCARD == "+"

MULTI_LEVEL_WILDCARD == "#"

WILDCARD_PARAMETER_NAME == Str("wildcard")

\* str.split(TOPIC_SEPARATOR): always at least one segment
RECURSIVE split(_)
split(s) ==
    IF TOPIC_SEPARATOR \notin Chars(s) THEN <<s>>
    ELSE LET i == Min({j \in 1..Len(s) : s[j] = TOPIC_SEPARATOR})
         IN  <<SubSeq(s, 1, i - 1)>> \o split(SubSeq(s, i + 1, Len(s)))

\* TOPIC_SEPARATOR.join(parts)
RECURSIVE join(_)
join(parts) ==
    IF Len(parts) = 0 THEN <<>>
    ELSE IF Len(parts) = 1 THEN parts[1]
    ELSE parts[1] \o <<TOPIC_SEPARATOR>> \o join(Tail(parts))

-----------------------------------------------------------------------------
(* PATH_PARAMETER_PATTERN: a placeholder is "{", an identifier, "}".       *)

Letters == Chars(Str("abcdefghijklmnopqrstuvwxyz"))

Digits == Chars(Str("0123456789"))

IdentStart == Letters \cup {"_"}

IdentChar == IdentStart \cup Digits

\* index of the closing brace of a placeholder starting at s[i], or 0
PlaceholderEnd(s, i) ==
    IF i + 2 <= Len(s) /\ s[i] = "{" /\ s[i + 1] \in IdentStart
    THEN LET run == Max({e \in (i + 1)..Len(s) :
                            \A j \in (i + 1)..e : s[j] \in IdentChar})
         IN  IF run + 1 <= Len(s) /\ s[run + 1] = "}" THEN run + 1 ELSE 0
    ELSE 0

\* PATH_PARAMETER_PATTERN.findall(s): the names of the non-overlapping
\* placeholders of s, scanning from the left, starting at index i
RECURSIVE FindAllFrom(_, _)
FindAllFrom(s, i) ==
    IF i > Len(s) THEN <<>>
    ELSE LET e == PlaceholderEnd(s, i)
         IN  IF e = 0 THEN FindAllFrom(s, i + 1)
             ELSE <<SubSeq(s, i + 1, e - 1)>> \o FindAllFrom(s, e + 1)

PATH_PARAMETER_PATTERN_findall(s) == FindAllFrom(s, 1)

\* PATH_PARAMETER_PATTERN.fullmatch(s) is not None
PATH_PARAMETER_PATTERN_fullmatch(s) ==
    Len(s) > 0 /\ PlaceholderEnd(s, 1) = Len(s)

\* PATH_PARAMETER_PATTERN.sub(repl, s), from index i
RECURSIVE SubFrom(_, _, _)
SubFrom(repl, s, i) ==
    IF i > Len(s) THEN <<>>
    ELSE LET e == PlaceholderEnd(s, i)
         IN  IF e = 0 THEN <<s[i]>> \o SubFrom(repl, s, i + 1)
             ELSE <<repl>> \o SubFrom(repl, s, e + 1)

PATH_PARAMETER_PATTERN_sub(repl, s) == SubFrom(repl, s, 1)

-----------------------------------------------------------------------------
(* Errors: kind is the exception class, rule the check that raised it,     *)
(* names the parameter names the error carries.                            *)

NoError == [kind |-> "none", rule |-> "none", names |-> {}]

RouteValidationError(rule, names) ==
    [kind |-> "RouteValidationError", rule |-> rule, names |-> names]

ReError == [kind |-> "re.error", rule |-> "redefinition of group name", names |-> {}]

KeyError(name) == [kind |-> "KeyError", rule |-> "injector", names |-> {name}]

TypeError(rule) == [kind |-> "TypeError", rule |-> rule, names |-> {}]

-----------------------------------------------------------------------------
(* _validate_topic_pattern *)

\* SegmentViolation without the check that "#" is the last segment
SegmentViolation_AnyPosition(segments, index) ==
    LET segment == segments[index]
        params_in_segment == PATH_PARAMETER_PATTERN_findall(segment)
    IN  IF MULTI_LEVEL_WILDCARD \in Chars(segment)
           /\ segment # <<MULTI_LEVEL_WILDCARD>>
        THEN "multi-level wildcard must occupy entire segment"
        ELSE IF params_in_segment # <<>>
                /\ (Len(params_in_segment) # 1
                    \/ segment # <<"{">> \o params_in_segment[1] \o <<"}">>)
        THEN "path-parameters must occupy the entire segment"
        ELSE IF params_in_segment # <<>>
                /\ params_in_segment[1] = WILDCARD_PARAMETER_NAME
        THEN "path-parameter name is reserved"
        ELSE "none"

\* the check that fails for segments[index] in the loop body, or "none"
SegmentViolation(segments, index) ==
    LET segment == segments[index]
        params_in_segment == PATH_PARAMETER_PATTERN_findall(segment)
    IN  IF MULTI_LEVEL_WILDCARD \in Chars(segment)
           /\ segment # <<MULTI_LEVEL_WILDCARD>>
        THEN "multi-level wildcard must occupy entire segment"
        ELSE IF MULTI_LEVEL_WILDCARD \in Chars(segment)
                /\ index # Len(segments)
        THEN "multi-level wildcard must be the last segment"
        ELSE IF params_in_segment # <<>>
                /\ (Len(params_in_segment) # 1
                    \/ segment # <<"{">> \o params_in_segment[1] \o <<"}">>)
        THEN "path-parameters must occupy the entire segment"
        ELSE IF params_in_segment # <<>>
                /\ params_in_segment[1] = WILDCARD_PARAMETER_NAME
        THEN "path-parameter name is reserved"
        ELSE "none"

validate_topic_pattern(topic_pattern) ==
    IF topic_pattern = <<>>
    THEN RouteValidationError("topic pattern cannot be empty", {})
    ELSE IF SINGLE_LEVEL_WILDCARD \in Chars(topic_pattern)
    THEN RouteValidationError("single-level wildcard is not allowed", {})
    ELSE LET segments == split(topic_pattern)
             bad == {i \in 1..Len(segments) :
                        SegmentViolation(segments, i) # "none"}
         IN  IF bad = {} THEN NoError
             ELSE RouteValidationError(SegmentViolation(segments, Min(bad)), {})

-----------------------------------------------------------------------------
(* Compiled patterns (re.Pattern) are sequences of tokens: the anchors,    *)
(* one literal per escaped character, and named groups with a character    *)
(* class repeated one or more times.                                       *)

Bol == [t |-> "^", c |-> "", name |-> <<>>]

Eol == [t |-> "$", c |-> "", name |-> <<>>]

Lit(ch) == [t |-> "lit", c |-> ch, name |-> <<>>]

Group(name, class) == [t |-> "group", c |-> class, name |-> name]

\* the names of the named groups of a token sequence, in order
RECURSIVE GroupNames(_)
GroupNames(regex) ==
    IF regex = <<>> THEN <<>>
    ELSE (IF Head(regex).t = "group" THEN <<Head(regex).name>> ELSE <<>>)
         \o GroupNames(Tail(regex))

\* the segments the loop of _compile_topic_pattern visits: it breaks after
\* the first segment that is the multi-level wildcard
VisitedSegments(segments) ==
    LET wild == {i \in 1..Len(segments) : segments[i] = <<MULTI_LEVEL_WILDCARD>>}
    IN  IF wild = {} THEN segments ELSE SubSeq(segments, 1, Min(wild))

\* the regex part appended for one segment
RegexPart(segment) ==
    IF segment = <<>> THEN <<>>
    ELSE IF PATH_PARAMETER_PATTERN_fullmatch(segment)
    THEN <<Group(SubSeq(segment, 2, Len(segment) - 1), "[^/]+")>>
    ELSE IF segment = <<MULTI_LEVEL_WILDCARD>>
    THEN <<Group(WILDCARD_PARAMETER_NAME, ".+")>>
    ELSE [i \in 1..Len(segment) |-> Lit(segment[i])]

\* TOPIC_SEPARATOR.join(regex_parts)
RECURSIVE JoinParts(_)
JoinParts(parts) ==
    IF Len(parts) = 0 THEN <<>>
    ELSE IF Len(parts) = 1 THEN parts[1]
    ELSE parts[1] \o <<Lit(TOPIC_SEPARATOR)>> \o JoinParts(Tail(parts))

\* the regex source "^" + ... + "$" built by _compile_topic_pattern
RegexPattern(topic_pattern) ==
    LET segments == VisitedSegments(split(topic_pattern))
        regex_parts == [i \in 1..Len(segments) |-> RegexPart(segments[i])]
    IN  <<Bol>> \o JoinParts(regex_parts) \o <<Eol>>

\* re.compile raises re.error when a group name is defined twice
re_compile_fails(regex) ==
    LET names == GroupNames(regex)
    IN  \E i, j \in 1..Len(names) : i < j /\ names[i] = names[j]

\* _compile_topic_pattern: the error raised, and the compiled pattern
compile_topic_pattern(topic_pattern) ==
    LET regex == RegexPattern(topic_pattern)
    IN  IF re_compile_fails(regex)
        THEN [error |-> ReError, regex |-> <<>>]
        ELSE [error |-> NoError, regex |-> regex]

-----------------------------------------------------------------------------
(* re.Pattern.fullmatch *)

NoMatch == [matched |-> FALSE, groups |-> <<>>]

\* whether character ch belongs to a group's class
InClass(class, ch) ==
    IF class = "[^/]+" THEN ch # TOPIC_SEPARATOR ELSE ch # "\n"

\* match regex[k..] against s from position pos; the whole of s must be
\* consumed.  A group is greedy: the longest repetition that lets the rest
\* match is taken.
RECURSIVE MatchFrom(_, _, _, _)
MatchFrom(regex, k, s, pos) ==
    IF k > Len(regex)
    THEN IF pos = Len(s) + 1 THEN [matched |-> TRUE, groups |-> <<>>] ELSE NoMatch
    ELSE LET tok == regex[k] IN
      CASE tok.t = "^" ->
             IF pos = 1 THEN MatchFrom(regex, k + 1, s, pos) ELSE NoMatch
        [] tok.t = "$" ->
             IF pos = Len(s) + 1 \/ (pos = Len(s) /\ s[pos] = "\n")
             THEN MatchFrom(regex, k + 1, s, pos) ELSE NoMatch
        [] tok.t = "lit" ->
             IF pos <= Len(s) /\ s[pos] = tok.c
             THEN MatchFrom(regex, k + 1, s, pos + 1) ELSE NoMatch
        [] tok.t = "group" ->
             LET ends == {e \in pos..Len(s) :
                            /\ \A j \in pos..e : InClass(tok.c, s[j])
                            /\ MatchFrom(regex, k + 1, s, e + 1).matched}
             IN  IF ends = {} THEN NoMatch
                 ELSE LET e == Max(ends)
                          rest == MatchFrom(regex, k + 1, s, e + 1)
                      IN  [matched |-> TRUE,
                           groups |-> (tok.name :> SubSeq(s, pos, e)) @@ rest.groups]

fullmatch(regex, s) == MatchFrom(regex, 1, s, 1)

-----------------------------------------------------------------------------
(* Handlers.  A handler is known to the router through inspect: whether it *)
(* is a coroutine function, and its signature, a sequence of parameters    *)
(* with a name and a kind.  "async def" gives "coroutine", "async def"     *)
(* with a yield "asyncgen", "def" gives "function".                        *)

POSITIONAL_OR_KEYWORD == "POSITIONAL_OR_KEYWORD"

KEYWORD_ONLY == "KEYWORD_ONLY"

Param(name) == [name |-> Str(name), kind |-> POSITIONAL_OR_KEYWORD]

KwOnly(name) == [name |-> Str(name), kind |-> KEYWORD_ONLY]

\* the handlers the model registers
HandlerDefs ==
    [on_ab     |-> [kind |-> "coroutine", params |-> <<>>],
     on_x      |-> [kind |-> "coroutine", params |-> <<Param("x")>>],
     with_db   |-> [kind |-> "coroutine", params |-> <<Param("x"), KwOnly("db")>>],
     only_db   |-> [kind |-> "coroutine", params |-> <<KwOnly("db")>>],
     on_xy     |-> [kind |-> "coroutine", params |-> <<Param("x"), Param("y")>>],
     on_wild   |-> [kind |-> "coroutine",
                    params |-> <<Param("wildcard"), Param("packet")>>],
     on_x_wild |-> [kind |-> "coroutine",
                    params |-> <<Param("x"), Param("wildcard")>>],
     hello     |-> [kind |-> "coroutine",
                    params |-> <<Param("name"), Param("count")>>],
     greet     |-> [kind |-> "coroutine",
                    params |-> <<Param("name"), Param("count"), KwOnly("db")>>],
     stream    |-> [kind |-> "asyncgen", params |-> <<Param("name")>>],
     blocking  |-> [kind |-> "function", params |-> <<Param("name")>>]]

\* inspect.iscoroutinefunction(handler): false for an async generator function
iscoroutinefunction(handler) == HandlerDefs[handler].kind = "coroutine"

\* inspect.signature(handler).parameters.values()
signature(handler) == HandlerDefs[handler].params

\* the names of the parameters of a signature whose kind is one of kinds
NamesOfKinds(sig, kinds) ==
    {sig[i].name : i \in {j \in 1..Len(sig) : sig[j].kind \in kinds}}

\* the absent value of an optional parameter name
None == <<>>

-----------------------------------------------------------------------------
(* _validate_route_handler *)

\* path_parameter_names without the reserved name for a multi-level wildcard
path_parameter_names_NoWildcard(topic_pattern) ==
    SeqToSet(PATH_PARAMETER_PATTERN_findall(topic_pattern))

\* the path-parameter names _validate_route_handler derives from the pattern
path_parameter_names(topic_pattern) ==
    SeqToSet(PATH_PARAMETER_PATTERN_findall(topic_pattern))
    \cup (IF MULTI_LEVEL_WILDCARD \in Chars(topic_pattern)
          THEN {WILDCARD_PARAMETER_NAME} ELSE {})

\* the parameters counted as packet-parameter candidates
non_path_parameters(handler, path_names) ==
    NamesOfKinds(signature(handler), {POSITIONAL_OR_KEYWORD, KEYWORD_ONLY})
    \ path_names

validate_route_handler(handler, topic_pattern) ==
    LET sig == signature(handler)
        handler_parameter_names == {sig[i].name : i \in 1..Len(sig)}
        missing == path_parameter_names(topic_pattern) \ handler_parameter_names
        non_path == non_path_parameters(handler, path_parameter_names(topic_pattern))
    IN  IF ~iscoroutinefunction(handler)
        THEN RouteValidationError("must be an async function", {})
        ELSE IF missing # {}
        THEN RouteValidationError("missing parameters for path-parameters", missing)
        ELSE IF Cardinality(non_path) > 1
        THEN RouteValidationError("more than one packet parameter", non_path)
        ELSE NoError

-----------------------------------------------------------------------------
(* _Route *)

\* _topic_pattern_to_topic
topic_pattern_to_topic(topic_pattern) ==
    PATH_PARAMETER_PATTERN_sub(SINGLE_LEVEL_WILDCARD, topic_pattern)

\* _Route._get_injector_parameters
get_injector_parameters(handler, path_parameters) ==
    NamesOfKinds(signature(handler), {KEYWORD_ONLY}) \ path_parameters

\* _Route._get_packet_parameter: the error raised and the value returned
get_packet_parameter(handler, path_parameters) ==
    LET packet_parameters == non_path_parameters(handler, path_parameters)
    IN  IF packet_parameters = {} THEN [error |-> NoError, value |-> None]
        ELSE IF Cardinality(packet_parameters) # 1
        THEN [error |-> [kind |-> "AssertionError", rule |-> "assert", names |-> {}],
              value |-> None]
        ELSE [error |-> NoError, value |-> CHOOSE p \in packet_parameters : TRUE]

\* _Route(...): dataclass construction followed by __post_init__
MakeRoute(topic_pattern, handler, qos) ==
    LET compiled == compile_topic_pattern(topic_pattern)
        path_parameters == SeqToSet(GroupNames(compiled.regex))
        packet == get_packet_parameter(handler, path_parameters)
    IN  [error |-> IF compiled.error.kind # "none" THEN compiled.error
                   ELSE packet.error,
         route |-> [topic_pattern |-> topic_pattern,
                    handler |-> handler,
                    qos |-> qos,
                    topic |-> topic_pattern_to_topic(topic_pattern),
                    regex |-> compiled.regex,
                    path_parameters |-> path_parameters,
                    injector_parameters |->
                        get_injector_parameters(handler, path_parameters),
                    packet_parameter |-> packet.value]]

-----------------------------------------------------------------------------
(* Router.dispatch *)

\* the positions of the iteration order whose route matches topic
MatchingPositions(order, topic) ==
    {i \in 1..Len(order) : fullmatch(order[i].regex, topic).matched}

\* the arguments dict of dispatch: path parameters first, then the packet
\* parameter, then the injectors; a later assignment replaces an earlier one
Arguments(route, match, packet, injectors) ==
    LET packet_names == IF route.packet_parameter = None THEN {}
                        ELSE {route.packet_parameter}
    IN  [n \in route.path_parameters \cup packet_names \cup route.injector_parameters |->
            IF n \in route.injector_parameters THEN injectors[n]
            ELSE IF n \in packet_names THEN packet
            ELSE match.groups[n]]

\* route.handler(**arguments) followed by await: the error raised
CallError(handler, arguments) ==
    LET sig == signature(handler)
        required == NamesOfKinds(sig, {POSITIONAL_OR_KEYWORD, KEYWORD_ONLY})
    IN  IF DOMAIN arguments # required \/ Cardinality(required) # Len(sig)
        THEN TypeError("arguments do not fit the signature")
        ELSE IF HandlerDefs[handler].kind # "coroutine"
        THEN TypeError("object cannot be used in await expression")
        ELSE NoError

\* whether the body of the handler ran
BodyRan(handler, arguments) ==
    /\ HandlerDefs[handler].kind # "asyncgen"
    /\ CallError(handler, arguments).rule # "arguments do not fit the signature"

\* the outcome record of an operation
Idle ==
    [op |-> "idle", pattern |-> <<>>, handler |-> "", qos |-> 0, topic |-> <<>>,
     packet |-> <<>>, injectors |-> <<>>, error |-> NoError, matched |-> FALSE,
     groups |-> <<>>, calls |-> <<>>]

\* what dispatch(topic, packet, **injectors) does over the iteration order
dispatch(order, topic, packet, injectors) ==
    LET pos == MatchingPositions(order, topic)
        call == [Idle EXCEPT !.op = "dispatch", !.topic = topic,
                             !.packet = packet, !.injectors = injectors]
    IN  IF pos = {} THEN call
        ELSE LET route == order[Min(pos)]
                 match == fullmatch(route.regex, topic)
                 absent == route.injector_parameters \ DOMAIN injectors
             IN  IF absent # {}
                 THEN [call EXCEPT !.matched = TRUE, !.handler = route.handler,
                                   !.groups = match.groups,
                                   !.error = [kind |-> "KeyError", rule |-> "injector",
                                              names |-> absent]]
                 ELSE LET arguments == Arguments(route, match, packet, injectors)
                      IN  [call EXCEPT
                              !.matched = TRUE, !.handler = route.handler,
                              !.groups = match.groups,
                              !.error = CallError(route.handler, arguments),
                              !.calls = IF BodyRan(route.handler, arguments)
                                        THEN <<[handler |-> route.handler,
                                                arguments |-> arguments]>>
                                        ELSE <<>>]

-----------------------------------------------------------------------------
(* Bounds and inputs *)

MaxRoutes == 2

AT_MOST_ONCE == 0

Prefixes == {<<>>, Str("p")}

Templates ==
    {Str("a/{x}"), Str("a/b"), Str("greet/{name}"), Str("sensors/#")}

Handlers == DOMAIN HandlerDefs

BaseTopics == {Str("a/b"), Str("greet/alice"), Str("sensors/kitchen/temp"), <<>>}

Packets == {Str("5")}

InjectorSets == {<<>>, Str("db") :> Str("{}")}

\* the names of the routers merged into the main one, each its own prefix
SubRouters == {"b", "c"}

-----------------------------------------------------------------------------
(* State machine of one Router *)

\* Router(prefix), and FastCC() before its first message
RouterInit ==
    /\ prefix \in Prefixes
    /\ routes = {}
    /\ iterOrder = <<>>
    /\ regOrder = <<>>
    /\ last = Idle
    /\ subrouters = [name \in SubRouters |-> {}]
    /\ listening = TRUE
    /\ published = <<>>

\* with CodecRegistry(), which has no codec
Init ==
    /\ RouterInit
    /\ codecs_by_order = <<>>
    /\ codecs_by_tag = <<>>
    /\ registering = None

\* a Python set of fewer than five elements is never rehashed: a new element
\* takes a free slot, anywhere in the iteration order of the others
Insertions(order, r) ==
    {SubSeq(order, 1, i) \o <<r>> \o SubSeq(order, i + 1, Len(order)) :
        i \in 0..Len(order)}

\* full_pattern of Router.route, for a router with prefix pfx
full_pattern(pfx, topic_pattern) == join(<<pfx, topic_pattern>>)

\* router.route(topic_pattern, qos)(handler) on a router with prefix pfx: the
\* error raised, and the route the decorator builds when none is raised before
RouteOutcome(pfx, topic_pattern, handler, qos) ==
    LET full == full_pattern(pfx, topic_pattern)
        pattern_error == validate_topic_pattern(full)
        handler_error == validate_route_handler(handler, full)
        made == MakeRoute(full, handler, qos)
    IN  [error |-> IF pattern_error.kind # "none" THEN pattern_error
                   ELSE IF handler_error.kind # "none" THEN handler_error
                   ELSE made.error,
         route |-> made.route]

\* RouteOutcome over the inputs of Spec, computed once
RouteOutcomes ==
    [pfx \in Prefixes, t \in Templates, h \in Handlers |->
        RouteOutcome(pfx, t, h, AT_MOST_ONCE)]

\* the effect of router.route(topic_pattern, qos)(handler) with that outcome:
\* self._routes.add(route) unless an error was raised
Register(outcome, topic_pattern, handler, qos) ==
    LET added == outcome.error.kind = "none" /\ outcome.route \notin routes
    IN  /\ Cardinality(routes) < MaxRoutes
        /\ routes' = IF outcome.error.kind = "none"
                     THEN routes \cup {outcome.route} ELSE routes
        /\ iterOrder' \in IF added THEN Insertions(iterOrder, outcome.route)
                          ELSE {iterOrder}
        /\ regOrder' = IF added THEN Append(regOrder, outcome.route) ELSE regOrder
        /\ last' = [Idle EXCEPT !.op = "route", !.pattern = topic_pattern,
                                !.handler = handler, !.qos = qos,
                                !.error = outcome.error]
        /\ UNCHANGED <<prefix, subrouters, appVars, codecVars>>

\* router.route(topic_pattern, qos)(handler)
Route(topic_pattern, handler, qos) ==
    Register(RouteOutcomes[prefix, topic_pattern, handler],
             topic_pattern, handler, qos)

\* await router.dispatch(topic, packet, **injectors)
Dispatch(topic, packet, injectors) ==
    /\ last' = dispatch(iterOrder, topic, packet, injectors)
    /\ UNCHANGED <<routerVars, subrouters, appVars, codecVars>>

Next ==
    \/ \E t \in Templates, h \in Handlers : Route(t, h, AT_MOST_ONCE)
    \/ \E t \in BaseTopics, p \in Packets, i \in InjectorSets :
          Dispatch(t, p, i) \/ Dispatch(full_pattern(prefix, t), p, i)

Spec == Init /\ [][Next]_vars

-----------------------------------------------------------------------------
(* One registration on a fresh Router, over every template that can be     *)
(* built from a vocabulary of segments                                     *)

MaxSegments == 2

SegmentVocabulary ==
    {<<>>, Str("a"), Str("{x}"), Str("{y}"), Str("#"), Str("+"), Str("{"),
     Str("a}"), Str("{}"), Str("{1x}"), Str("a{x}"), Str("{x}{y}"),
     Str("{wildcard}"), Str("a#")}

GeneratedTemplates ==
    {join(segs) : segs \in UNION {[1..n -> SegmentVocabulary] : n \in 1..MaxSegments}}

PatternRoute(topic_pattern, handler, qos) ==
    /\ last.op = "idle"
    /\ Register(RouteOutcome(prefix, topic_pattern, handler, qos),
                topic_pattern, handler, qos)

PatternNext ==
    /\ last.op = "idle"
    /\ \E t \in GeneratedTemplates, h \in Handlers : PatternRoute(t, h, AT_MOST_ONCE)

PatternSpec == Init /\ [][PatternNext]_vars

-----------------------------------------------------------------------------
(* The matcher of a validated template applied to a topic, as __post_init__ *)
(* and dispatch do: _compile_topic_pattern(p), fullmatch(topic), group(n)   *)

MaxTopicSegments == 3

TopicSegmentVocabulary == {<<>>, Str("a"), Str("{"), <<"\n">>}

GeneratedTopics ==
    {join(segs) :
        segs \in UNION {[1..n -> TopicSegmentVocabulary] : n \in 1..MaxTopicSegments}}

Match(topic_pattern, topic) ==
    /\ last.op = "idle"
    /\ validate_topic_pattern(topic_pattern).kind = "none"
    /\ LET compiled == compile_topic_pattern(topic_pattern)
           match == IF compiled.error.kind = "none"
                    THEN fullmatch(compiled.regex, topic) ELSE NoMatch
       IN  last' = [Idle EXCEPT !.op = "match", !.pattern = topic_pattern,
                                !.topic = topic, !.error = compiled.error,
                                !.matched = match.matched,
                                !.groups = match.groups]
    /\ UNCHANGED <<routerVars, subrouters, appVars, codecVars>>

MatchInit == Init /\ prefix = <<>>

MatchNext ==
    /\ last.op = "idle"
    /\ \E t \in GeneratedTemplates, u \in GeneratedTopics : Match(t, u)

MatchSpec == MatchInit /\ [][MatchNext]_vars

-----------------------------------------------------------------------------
(* Several routers: Router.add_router merges the routes of another router   *)

\* the prefix the other routers are constructed with
SubRouterPrefix == Str("p")

ComposeTemplates == {Str("a/b")}

ComposeHandlers == {"on_ab", "on_x"}

\* the outcome record of an operation that names one of the other routers
RouterCall(op, name, before) ==
    [router |-> name, before |-> before] @@ [Idle EXCEPT !.op = op]

\* router.route(topic_pattern, qos)(handler) on the router called name
SubRoute(name, topic_pattern, handler, qos) ==
    LET outcome == RouteOutcomes[SubRouterPrefix, topic_pattern, handler]
    IN  /\ Cardinality(subrouters[name]) < MaxRoutes
        /\ subrouters' =
              [subrouters EXCEPT ![name] = IF outcome.error.kind = "none"
                                           THEN @ \cup {outcome.route} ELSE @]
        /\ last' = [RouterCall("route_on", name, routes) EXCEPT
                       !.pattern = topic_pattern, !.handler = handler,
                       !.qos = qos, !.error = outcome.error]
        /\ UNCHANGED <<routerVars, appVars, codecVars>>

\* every order in which a set of n elements can be iterated
Orderings(S) ==
    {f \in [1..Cardinality(S) -> S] :
        \A i, j \in 1..Cardinality(S) : i # j => f[i] # f[j]}

\* the orders after adding the elements of new, one by one, to a set iterated
\* in one of orders
RECURSIVE InsertAll(_, _)
InsertAll(orders, new) ==
    IF new = {} THEN orders
    ELSE LET r == CHOOSE x \in new : TRUE
         IN  InsertAll(UNION {Insertions(o, r) : o \in orders}, new \ {r})

\* the iteration orders of self._routes after update() added the routes new;
\* a Python set is rebuilt when its fifth element is added, and afterwards
\* may iterate in any order
UpdatedOrders(order, new) ==
    IF new # {} /\ Len(order) + Cardinality(new) >= 5
    THEN Orderings(SeqToSet(order) \cup new)
    ELSE InsertAll({order}, new)

\* the elements of order that are in S, in the order of order
RECURSIVE Restrict(_, _)
Restrict(order, S) ==
    IF order = <<>> THEN <<>>
    ELSE (IF Head(order) \in S THEN <<Head(order)>> ELSE <<>>)
         \o Restrict(Tail(order), S)

\* add_router that assigns the other router's routes instead of adding them
AddRouter_Assign(name) ==
    /\ routes' = subrouters[name]
    /\ iterOrder' \in Orderings(subrouters[name])
    /\ regOrder' = iterOrder'
    /\ last' = RouterCall("add_router", name, routes)
    /\ UNCHANGED <<prefix, subrouters, appVars, codecVars>>

\* self.add_router(router), router being the router called name
AddRouter(name) ==
    LET new == subrouters[name] \ routes
    IN  /\ routes' = routes \cup subrouters[name]
        /\ iterOrder' \in UpdatedOrders(iterOrder, new)
        /\ regOrder' = regOrder \o Restrict(iterOrder', new)
        /\ last' = RouterCall("add_router", name, routes)
        /\ UNCHANGED <<prefix, subrouters, appVars, codecVars>>

ComposeNext ==
    \/ \E t \in ComposeTemplates, h \in ComposeHandlers : Route(t, h, AT_MOST_ONCE)
    \/ \E n \in SubRouters, t \in ComposeTemplates, h \in ComposeHandlers :
          SubRoute(n, t, h, AT_MOST_ONCE)
    \/ \E n \in SubRouters : AddRouter(n)

ComposeSpec == Init /\ [][ComposeNext]_vars

-----------------------------------------------------------------------------
(* fastcc/serialization.py: the built-in codecs.  A bytes object is a       *)
(* sequence of integers 0..255.  A Python value is a record of its type and *)
(* a sequence of integers: the code points of a str, the bytes of a bytes   *)
(* object, <<n>> for the int n, <<0>> or <<1>> for a bool, <<>> for None,   *)
(* <<sign, exponent, m1, ..., m7>> for a float (m1 the top 4 bits of the    *)
(* mantissa, m2..m7 its other 6 bytes), and the serialized bytes of a       *)
(* protobuf message, whose wire format is the protobuf library's.           *)

MAX_PAYLOAD_SIZE == 1048576

FLOAT_BYTE_LENGTH == 8

BOOL_FALSE_BYTE == <<0>>

BOOL_TRUE_BYTE == <<1>>

MAX_CODEC_TAG == 255

TypeTag ==
    [NONE |-> 0, BYTES |-> 1, STR |-> 2, INT |-> 3, FLOAT |-> 4, BOOL |-> 5,
     PROTOBUF |-> 6]

PyValue(type, v) == [type |-> type, v |-> v]

PyNone == PyValue("NoneType", <<>>)

PyBool(b) == PyValue("bool", IF b THEN <<1>> ELSE <<0>>)

PyInt(n) == PyValue("int", <<n>>)

PyStr(code_points) == PyValue("str", code_points)

PyBytes(bytes) == PyValue("bytes", bytes)

PyFloat(sign, exponent, mantissa) == PyValue("float", <<sign, exponent>> \o mantissa)

PyMessage(serialized) == PyValue("Message", serialized)

\* isinstance(value, int): bool is a subclass of int
IsInstanceInt(value) == value.type \in {"int", "bool"}

SerializationError(rule) ==
    [kind |-> "SerializationError", rule |-> rule, names |-> {}]

UnicodeEncodeError ==
    [kind |-> "UnicodeEncodeError", rule |-> "surrogates not allowed", names |-> {}]

\* the outcome of a call: the error raised, or the value returned
Raised(error) == [error |-> error, value |-> PyNone]

Returned(value) == [error |-> NoError, value |-> value]

\* str.encode("utf-8") of one code point; <<>> for a surrogate
EncodeCodePoint(c) ==
    IF c < 128 THEN <<c>>
    ELSE IF c < 2048 THEN <<192 + (c \div 64), 128 + (c % 64)>>
    ELSE IF c >= 55296 /\ c <= 57343 THEN <<>>
    ELSE IF c < 65536
    THEN <<224 + (c \div 4096), 128 + ((c \div 64) % 64), 128 + (c % 64)>>
    ELSE <<240 + (c \div 262144), 128 + ((c \div 4096) % 64),
           128 + ((c \div 64) % 64), 128 + (c % 64)>>

RECURSIVE EncodeCodePoints(_)
EncodeCodePoints(text) ==
    IF text = <<>> THEN <<>>
    ELSE EncodeCodePoint(Head(text)) \o EncodeCodePoints(Tail(text))

\* str.encode("utf-8"): raises UnicodeEncodeError for a surrogate
encode_utf8(text) ==
    IF \E i \in 1..Len(text) : EncodeCodePoint(text[i]) = <<>>
    THEN Raised(UnicodeEncodeError)
    ELSE Returned(PyBytes(EncodeCodePoints(text)))

IsContinuation(b) == b >= 128 /\ b <= 191

\* the number of bytes of the well-formed UTF-8 sequence that starts at
\* payload[i], 0 if there is none: no overlong form, no surrogate, nothing
\* above U+10FFFF
SequenceLength(payload, i) ==
    LET b == payload[i]
        n == Len(payload)
        Cont(k) == i + k <= n /\ IsContinuation(payload[i + k])
    IN  IF b < 128 THEN 1
        ELSE IF b >= 194 /\ b <= 223 THEN (IF Cont(1) THEN 2 ELSE 0)
        ELSE IF b >= 224 /\ b <= 239
        THEN (IF /\ Cont(1) /\ Cont(2)
                 /\ (b = 224 => payload[i + 1] >= 160)
                 /\ (b = 237 => payload[i + 1] <= 159)
              THEN 3 ELSE 0)
        ELSE IF b >= 240 /\ b <= 244
        THEN (IF /\ Cont(1) /\ Cont(2) /\ Cont(3)
                 /\ (b = 240 => payload[i + 1] >= 144)
                 /\ (b = 244 => payload[i + 1] <= 143)
              THEN 4 ELSE 0)
        ELSE 0

\* the code point of the well-formed sequence of k bytes at payload[i]
CodePointAt(payload, i, k) ==
    IF k = 1 THEN payload[i]
    ELSE IF k = 2 THEN ((payload[i] - 192) * 64) + (payload[i + 1] - 128)
    ELSE IF k = 3
    THEN ((payload[i] - 224) * 4096) + ((payload[i + 1] - 128) * 64)
         + (payload[i + 2] - 128)
    ELSE ((payload[i] - 240) * 262144) + ((payload[i + 1] - 128) * 4096)
         + ((payload[i + 2] - 128) * 64) + (payload[i + 3] - 128)

\* bytes.decode("utf-8") from position i: <<ok, code points>>
RECURSIVE DecodeFrom(_, _)
DecodeFrom(payload, i) ==
    IF i > Len(payload) THEN [ok |-> TRUE, text |-> <<>>]
    ELSE LET k == SequenceLength(payload, i)
         IN  IF k = 0 THEN [ok |-> FALSE, text |-> <<>>]
             ELSE LET rest == DecodeFrom(payload, i + k)
                  IN  [ok |-> rest.ok,
                       text |-> <<CodePointAt(payload, i, k)>> \o rest.text]

encode_none(value) == Returned(PyBytes(<<>>))

decode_none(payload) ==
    IF Len(payload) # 0 THEN Raised(SerializationError("Invalid None payload length"))
    ELSE Returned(PyNone)

\* _decode_bool that takes every non-zero byte for True
decode_bool_Truthy(payload) ==
    IF Len(payload) # 1
    THEN Raised(SerializationError("Invalid boolean payload length"))
    ELSE Returned(PyBool(payload # BOOL_FALSE_BYTE))

\* truthiness of the value, as the conditional expression tests it
encode_bool(value) ==
    Returned(PyBytes(IF value.v # <<>> /\ value.v # <<0>>
                     THEN BOOL_TRUE_BYTE ELSE BOOL_FALSE_BYTE))

decode_bool(payload) ==
    IF Len(payload) # 1
    THEN Raised(SerializationError("Invalid boolean payload length"))
    ELSE IF payload \notin {BOOL_FALSE_BYTE, BOOL_TRUE_BYTE}
    THEN Raised(SerializationError("Invalid boolean payload value"))
    ELSE Returned(PyBool(payload = BOOL_TRUE_BYTE))

\* _decode_string without the except clause
decode_string_Uncaught(payload) ==
    LET decoded == DecodeFrom(payload, 1)
    IN  IF decoded.ok THEN Returned(PyStr(decoded.text))
        ELSE Raised([kind |-> "UnicodeDecodeError", rule |-> "invalid utf-8",
                     names |-> {}])

decode_string(payload) ==
    LET decoded == DecodeFrom(payload, 1)
    IN  IF decoded.ok THEN Returned(PyStr(decoded.text))
        ELSE Raised(SerializationError("Failed to decode UTF-8 string"))

\* int.bit_length()
RECURSIVE BitLengthOf(_)
BitLengthOf(n) == IF n = 0 THEN 0 ELSE 1 + BitLengthOf(n \div 2)

bit_length(integer) == BitLengthOf(IF integer < 0 THEN -integer ELSE integer)

\* int.to_bytes(byte_len, byteorder="big", signed=True)
RECURSIVE to_bytes(_, _)
to_bytes(integer, byte_len) ==
    IF byte_len = 0 THEN <<>>
    ELSE to_bytes((integer - (integer % 256)) \div 256, byte_len - 1)
         \o <<integer % 256>>

\* _encode_int with (bit_length + 7) // 8 bytes: no room for the sign bit
encode_int_Short(value) ==
    LET integer == value.v[1]
        byte_len == (bit_length(integer) + 7) \div 8
    IN  Returned(PyBytes(to_bytes(integer, byte_len)))

encode_int(value) ==
    LET integer == value.v[1]
        byte_len == (bit_length(integer) + 8) \div 8
    IN  Returned(PyBytes(to_bytes(integer, byte_len)))

\* int.from_bytes(payload, byteorder="big", signed=True) of the first n bytes
RECURSIVE from_bytes(_, _)
from_bytes(payload, n) ==
    IF n = 1 THEN (IF payload[1] >= 128 THEN payload[1] - 256 ELSE payload[1])
    ELSE (from_bytes(payload, n - 1) * 256) + payload[n]

decode_int(payload) ==
    IF Len(payload) = 0
    THEN Raised(SerializationError("Invalid integer payload length"))
    ELSE Returned(PyInt(from_bytes(payload, Len(payload))))

\* struct.pack("!d", value): sign bit, 11 exponent bits, 52 mantissa bits
encode_float(value) ==
    LET sign == value.v[1]
        exponent == value.v[2]
    IN  Returned(PyBytes(<<sign * 128 + (exponent \div 16),
                           ((exponent % 16) * 16) + value.v[3]>>
                         \o SubSeq(value.v, 4, 9)))

decode_float(payload) ==
    IF Len(payload) # FLOAT_BYTE_LENGTH
    THEN Raised(SerializationError("Invalid float payload length"))
    ELSE Returned(PyFloat(payload[1] \div 128,
                          ((payload[1] % 128) * 16) + (payload[2] \div 16),
                          <<payload[2] % 16>> \o SubSeq(payload, 3, 8)))

\* value.SerializeToString()
encode_protobuf(value) == Returned(PyBytes(value.v))

-----------------------------------------------------------------------------
(* fastcc/codec.py: CodecRegistry.  A codec is a record of the name of its  *)
(* functions and of its tag attribute, a Python value.                      *)

Codec(id, tag) == [id |-> id, tag |-> tag]

\* codec.can_encode(value): the built-in predicates of
\* _build_default_registry, and "number", a codec for every int, bool included
can_encode(codec, value) ==
    CASE codec.id = "none" -> value.type = "NoneType"
      [] codec.id = "bool" -> value.type = "bool"
      [] codec.id = "bytes" -> value.type = "bytes"
      [] codec.id = "str" -> value.type = "str"
      [] codec.id = "int" -> IsInstanceInt(value) /\ value.type # "bool"
      [] codec.id = "float" -> value.type = "float"
      [] codec.id = "protobuf" -> value.type = "Message"
      [] codec.id = "number" -> IsInstanceInt(value)

\* codec.encode(value)
encode(codec, value) ==
    CASE codec.id = "none" -> encode_none(value)
      [] codec.id = "bool" -> encode_bool(value)
      [] codec.id = "bytes" -> Returned(PyBytes(value.v))
      [] codec.id = "str" -> encode_utf8(value.v)
      [] codec.id = "int" -> encode_int(value)
      [] codec.id = "float" -> encode_float(value)
      [] codec.id = "protobuf" -> encode_protobuf(value)
      [] codec.id = "number" -> encode_int(value)

\* codec.decode(payload)
decode(codec, payload) ==
    CASE codec.id = "none" -> decode_none(payload)
      [] codec.id = "bool" -> decode_bool(payload)
      [] codec.id = "bytes" -> Returned(PyBytes(payload))
      [] codec.id = "str" -> decode_string(payload)
      [] codec.id = "int" -> decode_int(payload)
      [] codec.id = "float" -> decode_float(payload)
      [] codec.id = "protobuf" -> Returned(PyBytes(payload))
      [] codec.id = "number" -> decode_int(payload)

\* a registry: its two attributes
Registry(by_order, by_tag) == [by_order |-> by_order, by_tag |-> by_tag]

EmptyRegistry == Registry(<<>>, <<>>)

\* the first position of by_order whose codec has the tag, 0 if none has
IndexOfTag(by_order, tag) ==
    IF \E i \in 1..Len(by_order) : by_order[i].tag = tag
    THEN Min({i \in 1..Len(by_order) : by_order[i].tag = tag})
    ELSE 0

\* register that takes True and False for the integers 1 and 0
register_BoolIsInt(registry, codec, override) ==
    LET tag == codec.tag
        number == tag.v[1]
        existing == number \in DOMAIN registry.by_tag
        index == IndexOfTag(registry.by_order, tag)
    IN  IF ~IsInstanceInt(tag)
        THEN [error |-> SerializationError("Codec tag must be an integer in range 0..255"),
              registry |-> registry]
        ELSE IF ~(0 <= number /\ number <= MAX_CODEC_TAG)
        THEN [error |-> SerializationError("Codec tag out of range 0..255"),
              registry |-> registry]
        ELSE IF existing /\ ~override
        THEN [error |-> SerializationError("Codec tag already registered"),
              registry |-> registry]
        ELSE [error |-> NoError,
              registry |->
                 Registry(IF existing /\ override
                          THEN (IF index = 0 THEN registry.by_order
                                ELSE [registry.by_order EXCEPT ![index] = codec])
                          ELSE Append(registry.by_order, codec),
                          (number :> codec) @@ registry.by_tag)]

\* register that moves an overridden codec to the end of the probe order
register_MoveToEnd(registry, codec, override) ==
    LET tag == codec.tag
        number == tag.v[1]
        existing == number \in DOMAIN registry.by_tag
        index == IndexOfTag(registry.by_order, tag)
    IN  IF tag.type = "bool" \/ ~IsInstanceInt(tag)
        THEN [error |-> SerializationError("Codec tag must be an integer in range 0..255"),
              registry |-> registry]
        ELSE IF ~(0 <= number /\ number <= MAX_CODEC_TAG)
        THEN [error |-> SerializationError("Codec tag out of range 0..255"),
              registry |-> registry]
        ELSE IF existing /\ ~override
        THEN [error |-> SerializationError("Codec tag already registered"),
              registry |-> registry]
        ELSE [error |-> NoError,
              registry |->
                 Registry(IF existing /\ override
                          THEN Append(SubSeq(registry.by_order, 1, index - 1)
                                      \o SubSeq(registry.by_order, index + 1,
                                                Len(registry.by_order)), codec)
                          ELSE Append(registry.by_order, codec),
                          (number :> codec) @@ registry.by_tag)]

\* register that appends the codec to the probe order also when it overrides
register_AppendAlways(registry, codec, override) ==
    LET tag == codec.tag
        number == tag.v[1]
        existing == number \in DOMAIN registry.by_tag
    IN  IF tag.type = "bool" \/ ~IsInstanceInt(tag)
        THEN [error |-> SerializationError("Codec tag must be an integer in range 0..255"),
              registry |-> registry]
        ELSE IF ~(0 <= number /\ number <= MAX_CODEC_TAG)
        THEN [error |-> SerializationError("Codec tag out of range 0..255"),
              registry |-> registry]
        ELSE IF existing /\ ~override
        THEN [error |-> SerializationError("Codec tag already registered"),
              registry |-> registry]
        ELSE [error |-> NoError,
              registry |-> Registry(Append(registry.by_order, codec),
                                    (number :> codec) @@ registry.by_tag)]

\* CodecRegistry.register(codec, override=override): the error raised and
\* the registry afterwards
register(registry, codec, override) ==
    LET tag == codec.tag
        number == tag.v[1]
        existing == number \in DOMAIN registry.by_tag
        index == IndexOfTag(registry.by_order, tag)
    IN  IF tag.type = "bool" \/ ~IsInstanceInt(tag)
        THEN [error |-> SerializationError("Codec tag must be an integer in range 0..255"),
              registry |-> registry]
        ELSE IF ~(0 <= number /\ number <= MAX_CODEC_TAG)
        THEN [error |-> SerializationError("Codec tag out of range 0..255"),
              registry |-> registry]
        ELSE IF existing /\ ~override
        THEN [error |-> SerializationError("Codec tag already registered"),
              registry |-> registry]
        ELSE [error |-> NoError,
              registry |->
                 Registry(IF existing /\ override
                          THEN (IF index = 0 THEN registry.by_order
                                ELSE [registry.by_order EXCEPT ![index] = codec])
                          ELSE Append(registry.by_order, codec),
                          (number :> codec) @@ registry.by_tag)]

\* CodecRegistry(codecs): register each of them in turn
RECURSIVE RegisterAll(_, _)
RegisterAll(registry, codecs) ==
    IF codecs = <<>> THEN registry
    ELSE RegisterAll(register(registry, Head(codecs), FALSE).registry, Tail(codecs))

\* the loop of CodecRegistry.__init__: a registration that raises ends it
RECURSIVE register_each(_, _)
register_each(registry, codecs) ==
    IF codecs = <<>> THEN [error |-> NoError, registry |-> registry]
    ELSE The({IF first.error.kind # "none" THEN first
              ELSE register_each(first.registry, Tail(codecs)) :
              first \in {register(registry, Head(codecs), FALSE)}})

\* CodecRegistry(codecs): the error raised, or the registry constructed
CodecRegistry(codecs) == register_each(EmptyRegistry, codecs)

\* registry.clone()
clone(registry) == CodecRegistry(registry.by_order)

\* the codecs of _build_default_registry, bool before int
builtins ==
    <<Codec("none", PyInt(TypeTag.NONE)), Codec("bool", PyInt(TypeTag.BOOL)),
      Codec("bytes", PyInt(TypeTag.BYTES)), Codec("str", PyInt(TypeTag.STR)),
      Codec("int", PyInt(TypeTag.INT)), Codec("float", PyInt(TypeTag.FLOAT)),
      Codec("protobuf", PyInt(TypeTag.PROTOBUF))>>

default_registry == RegisterAll(EmptyRegistry, builtins)

\* the positions of the probe order whose codec accepts the value
Accepting(by_order, value) ==
    {i \in 1..Len(by_order) : can_encode(by_order[i], value)}

\* encode with the last codec of the probe order that accepts the value
registry_encode_LastAccepting(registry, value) ==
    IF Accepting(registry.by_order, value) = {}
    THEN Raised([kind |-> "SerializationError", rule |-> "Unsupported packet type",
                 names |-> {Str(value.type)}])
    ELSE LET codec == registry.by_order[Max(Accepting(registry.by_order, value))]
             payload == encode(codec, value)
         IN  IF payload.error.kind # "none" THEN payload
             ELSE Returned(PyBytes(<<codec.tag.v[1]>> \o payload.value.v))

\* CodecRegistry.encode(value)
registry_encode(registry, value) ==
    IF Accepting(registry.by_order, value) = {}
    THEN Raised([kind |-> "SerializationError", rule |-> "Unsupported packet type",
                 names |-> {Str(value.type)}])
    ELSE LET codec == registry.by_order[Min(Accepting(registry.by_order, value))]
             payload == encode(codec, value)
         IN  IF payload.error.kind # "none" THEN payload
             ELSE Returned(PyBytes(<<codec.tag.v[1]>> \o payload.value.v))

\* CodecRegistry.decode(data)
registry_decode(registry, data) ==
    IF data = <<>> THEN Raised(SerializationError("Cannot deserialize empty data"))
    ELSE LET tag == data[1]
             payload == Tail(data)
         IN  IF tag \notin DOMAIN registry.by_tag
             THEN Raised(SerializationError("Unrecognised type tag"))
             ELSE decode(registry.by_tag[tag], payload)

\* serialize(packet, registry=registry)
serialize(packet, registry) == registry_encode(registry, packet)

\* the size check of deserialize that accepts no payload of the maximum size
exceeds_limit_Inclusive(length) == length - 1 >= MAX_PAYLOAD_SIZE

\* the size check of deserialize on data of that many bytes
exceeds_limit(length) == length - 1 > MAX_PAYLOAD_SIZE

\* the error deserialize itself raises for data of that many bytes
rejected_by_deserialize(length) ==
    IF length = 0 THEN SerializationError("Cannot deserialize empty data")
    ELSE IF exceeds_limit(length)
    THEN SerializationError("Payload size exceeds maximum limit")
    ELSE NoError

\* deserialize(data, registry=registry)
deserialize(data, registry) ==
    IF rejected_by_deserialize(Len(data)).kind # "none"
    THEN Raised(rejected_by_deserialize(Len(data)))
    ELSE registry_decode(registry, data)

-----------------------------------------------------------------------------
(* State machine of one CodecRegistry: register, encode and decode calls    *)
(* on a registry that starts empty or as the default registry              *)

CodecIds == {"number", "bool", "int"}

\* codec.tag: integers in and out of range, True, "3" and 3.0
TagValues ==
    {PyInt(TypeTag.INT), PyInt(TypeTag.BOOL), PyInt(MAX_CODEC_TAG),
     PyInt(MAX_CODEC_TAG + 1), PyInt(-1), PyBool(TRUE), PyStr(<<51>>),
     PyFloat(0, 1024, <<8, 0, 0, 0, 0, 0, 0>>)}

\* values to encode: None, True, False, 5, -1, "a", a lone surrogate, b"a",
\* 1.5, a protobuf message and a list
EncodeValues ==
    {PyNone, PyBool(TRUE), PyBool(FALSE), PyInt(5), PyInt(-1), PyStr(<<97>>),
     PyStr(<<55296>>), PyBytes(<<97>>), PyFloat(0, 1023, <<8, 0, 0, 0, 0, 0, 0>>),
     PyMessage(<<8, 1>>), PyValue("list", <<>>)}

DecodeInputs ==
    {<<>>, <<TypeTag.BOOL, 1>>, <<TypeTag.BOOL, 2>>, <<TypeTag.INT, 255>>,
     <<TypeTag.INT>>, <<TypeTag.STR, 97>>, <<TypeTag.STR, 255>>, <<7, 0>>,
     <<MAX_CODEC_TAG, 1>>}

\* the outcome record of a call on the registry
CodecCall(op) ==
    [op |-> op, codec |-> Codec("", PyNone), override |-> FALSE, value |-> PyNone,
     data |-> <<>>, error |-> NoError, result |-> PyNone,
     before |-> Registry(codecs_by_order, codecs_by_tag)]

\* registry.register(codec, override=override)
RegisterCodec(codec, override) ==
    LET out == register(Registry(codecs_by_order, codecs_by_tag), codec, override)
    IN  /\ codecs_by_order' = out.registry.by_order
        /\ codecs_by_tag' = out.registry.by_tag
        /\ last' = [CodecCall("register") EXCEPT !.codec = codec,
                       !.override = override, !.error = out.error]
        /\ UNCHANGED <<routerVars, subrouters, appVars, registering>>

\* registry.encode(value)
EncodeValue(value) ==
    LET out == registry_encode(Registry(codecs_by_order, codecs_by_tag), value)
    IN  /\ last' = [CodecCall("encode") EXCEPT !.value = value,
                       !.error = out.error, !.result = out.value]
        /\ UNCHANGED <<routerVars, subrouters, appVars, codecVars>>

\* registry.decode(data)
DecodeData(data) ==
    LET out == registry_decode(Registry(codecs_by_order, codecs_by_tag), data)
    IN  /\ last' = [CodecCall("decode") EXCEPT !.data = data,
                       !.error = out.error, !.result = out.value]
        /\ UNCHANGED <<routerVars, subrouters, appVars, codecVars>>

MaxCodecs == 2

\* codecs handed to the constructor: up to MaxCodecs of them, with equal and
\* different tags and a tag out of range
ConstructorCodecs ==
    UNION {[1..n -> {Codec("number", PyInt(TypeTag.INT)),
                     Codec("bool", PyInt(TypeTag.INT)),
                     Codec("bool", PyInt(TypeTag.BOOL)),
                     Codec("number", PyInt(MAX_CODEC_TAG + 1))}] :
           n \in 0..MaxCodecs}

\* registry = CodecRegistry(codecs); a constructor that raises leaves the
\* registry that was there
Construct(codecs) ==
    \E out \in {CodecRegistry(codecs)} :
       /\ codecs_by_order' = IF out.error.kind = "none" THEN out.registry.by_order
                             ELSE codecs_by_order
       /\ codecs_by_tag' = IF out.error.kind = "none" THEN out.registry.by_tag
                           ELSE codecs_by_tag
       /\ last' = [op |-> "construct", codecs |-> codecs]
                  @@ [CodecCall("construct") EXCEPT !.error = out.error]
       /\ UNCHANGED <<routerVars, subrouters, appVars, registering>>

\* registry = registry.clone()
Clone ==
    \E out \in {clone(Registry(codecs_by_order, codecs_by_tag))} :
       /\ codecs_by_order' = IF out.error.kind = "none" THEN out.registry.by_order
                             ELSE codecs_by_order
       /\ codecs_by_tag' = IF out.error.kind = "none" THEN out.registry.by_tag
                           ELSE codecs_by_tag
       /\ last' = [CodecCall("clone") EXCEPT !.error = out.error]
       /\ UNCHANGED <<routerVars, subrouters, appVars, registering>>

CodecInit ==
    /\ RouterInit
    /\ prefix = <<>>
    /\ \E registry \in {EmptyRegistry, default_registry} :
          /\ codecs_by_order = registry.by_order
          /\ codecs_by_tag = registry.by_tag
    /\ registering = None

CodecNext ==
    \/ \E id \in CodecIds, tag \in TagValues, override \in BOOLEAN :
          RegisterCodec(Codec(id, tag), override)
    \/ \E value \in EncodeValues : EncodeValue(value)
    \/ \E data \in DecodeInputs : DecodeData(data)
    \/ \E codecs \in ConstructorCodecs : Construct(codecs)
    \/ Clone

CodecSpec == CodecInit /\ [][CodecNext]_vars

-----------------------------------------------------------------------------
(* One thread inside CodecRegistry.register while other threads call        *)
(* encode and decode on the same registry: register holds no lock, so the   *)
(* other threads run between its statements                                 *)

\* register(codec, override=override) up to the statement that writes
\* _codecs_by_order (lines 62 to 82); a call that raises has written nothing
RegisterBegin(codec, override) ==
    /\ registering = None
    /\ \E out \in {register(Registry(codecs_by_order, codecs_by_tag), codec,
                             override)} :
          /\ codecs_by_order' = out.registry.by_order
          /\ registering' = IF out.error.kind = "none" THEN codec ELSE None
          /\ last' = [CodecCall(IF out.error.kind = "none" THEN "registering"
                                ELSE "register")
                         EXCEPT !.codec = codec, !.override = override,
                                !.error = out.error]
    /\ UNCHANGED <<routerVars, subrouters, appVars, codecs_by_tag>>

\* the last statement of register: self._codecs_by_tag[tag] = codec
RegisterEnd ==
    /\ registering # None
    /\ codecs_by_tag' = (registering.tag.v[1] :> registering) @@ codecs_by_tag
    /\ registering' = None
    /\ last' = [CodecCall("register") EXCEPT !.codec = registering]
    /\ UNCHANGED <<routerVars, subrouters, appVars, codecs_by_order>>

ThreadNext ==
    \/ \E id \in CodecIds, tag \in TagValues, override \in BOOLEAN :
          RegisterBegin(Codec(id, tag), override)
    \/ RegisterEnd
    \/ \E value \in EncodeValues : EncodeValue(value)
    \/ \E data \in DecodeInputs : DecodeData(data)

ThreadSpec == CodecInit /\ [][ThreadNext]_vars

-----------------------------------------------------------------------------
(* The application: FastCC.__listen hands each incoming message to         *)
(* FastCC.__handle, which looks the routes up by topic and QoS, calls each  *)
(* of them and publishes its response through Client.publish, which         *)
(* serializes it with the default registry                                  *)

MaxPublished == 2

MaxYields == 1

AT_LEAST_ONCE == 1

AppTemplates == {Str("a/b")}

AppHandlers == {"on_ab", "on_x", "stream"}

\* incoming messages: topic, qos, payload and the MQTT 5 properties; requests
\* on the routed topic, and one message each with a payload that is not bytes
\* and on a topic without routes
ReplyProperties ==
    {[ResponseTopic |-> None, CorrelationData |-> Str("c")],
     [ResponseTopic |-> Str("r"), CorrelationData |-> None],
     [ResponseTopic |-> Str("s"), CorrelationData |-> Str("d")]}

Requests ==
    {[topic |-> Str("a/b"), qos |-> q,
      payload |-> [type |-> "bytes", data |-> Str("5")],
      ResponseTopic |-> p.ResponseTopic, CorrelationData |-> p.CorrelationData] :
      q \in {AT_MOST_ONCE, AT_LEAST_ONCE}, p \in ReplyProperties}

Messages ==
    Requests
    \cup {[topic |-> Str("a/b"), qos |-> AT_MOST_ONCE,
           payload |-> [type |-> "str", data |-> Str("5")],
           ResponseTopic |-> Str("r"), CorrelationData |-> None],
          [topic |-> Str("x"), qos |-> AT_MOST_ONCE,
           payload |-> [type |-> "bytes", data |-> Str("5")],
           ResponseTopic |-> Str("r"), CorrelationData |-> None]}

\* what the body of a called handler does: the number of values it yields
\* (an async generator), the error it raises, "none" when it finishes, and
\* the value it returns then
Raises == {"none", "MQTTError", "RuntimeError"}

\* "ok", and a list, which no codec of the default registry accepts
ReturnValues == {PyStr(<<111, 107>>), PyValue("list", <<>>)}

Behaviours == [yields : 0..MaxYields, raises : Raises, returns : ReturnValues]

\* a handler returns one of the values or raises one of the errors
HandlerOutcomes ==
    {b \in [raises : Raises, returns : ReturnValues] :
        b.raises = "none" \/ b.returns = PyStr(<<111, 107>>)}

\* only an async generator yields
YieldCounts(called) ==
    IF \E r \in called : HandlerDefs[r.handler].kind = "asyncgen"
    THEN 0..MaxYields ELSE {0}

\* "v1", "v2", "v3"
YieldValues == <<PyStr(<<118, 49>>), PyStr(<<118, 50>>), PyStr(<<118, 51>>)>>

\* self._exception_handlers: MQTTError is handled by the identity
exception_handlers == {"MQTTError"}

\* the members of an MQTTError raised by a handler: "failed" and 7
MQTTErrorMessage == PyStr(<<102, 97, 105, 108, 101, 100>>)

MQTTErrorCode == PyInt(7)

\* str(n) of a natural number: its decimal digits
RECURSIVE decimal(_)
decimal(n) ==
    IF n < 10 THEN <<Str("0123456789")[n + 1]>>
    ELSE decimal(n \div 10) \o <<Str("0123456789")[(n % 10) + 1]>>

\* str(mqtt_error.error_code)
str_of_code(code) ==
    IF code.type # "int" THEN Str("None")
    ELSE IF code.v[1] < 0 THEN Str("-") \o decimal(-code.v[1])
    ELSE decimal(code.v[1])

\* repr(error): "RuntimeError()", "TypeError()", "SerializationError()"
repr(error) ==
    PyStr(CASE error = "RuntimeError" ->
                  <<82, 117, 110, 116, 105, 109, 101, 69, 114, 114, 111, 114, 40, 41>>
            [] error = "TypeError" ->
                  <<84, 121, 112, 101, 69, 114, 114, 111, 114, 40, 41>>
            [] error = "SerializationError" ->
                  <<83, 101, 114, 105, 97, 108, 105, 122, 97, 116, 105, 111, 110,
                    69, 114, 114, 111, 114, 40, 41>>
            [] OTHER -> <<77, 81, 84, 84, 69, 114, 114, 111, 114, 40, 41>>)

\* self._router.routes.get(topic): the routes subscribed under exactly topic
routings(topic) == {r \in routes : r.topic = topic}

\* routings.get(qos), in the order of registration
routes_for(topic, qos) ==
    Restrict(regOrder, {r \in routings(topic) : r.qos = qos})

\* __get_route_parameters: the injectors the signature names, and the packet
get_route_parameters(route, payload, injectors) ==
    LET names == {signature(route.handler)[i].name :
                     i \in 1..Len(signature(route.handler))}
        packet_names == IF route.packet_parameter = None THEN {}
                        ELSE {route.packet_parameter}
    IN  [n \in (DOMAIN injectors \cap names) \cup packet_names |->
            IF n \in packet_names THEN payload.data ELSE injectors[n]]

\* Properties(PacketTypes.PUBLISH) with the correlation data of the message
Properties(message) == [CorrelationData |-> message.CorrelationData, UserProperty |-> None]

\* the outcome of a step of __handle: the error it raised and what it
\* handed to the broker
Sent(error, sent) == [error |-> error, sent |-> sent]

\* the responses a handler or the except branch hands to Client.publish
Responses ==
    ReturnValues \cup SeqToSet(YieldValues) \cup {PyNone, MQTTErrorMessage}
    \cup {repr(error) : error \in {"RuntimeError", "TypeError", "SerializationError"}}

\* serialize(packet, registry=self._codec_registry) of Client.publish, with
\* the default registry, over those responses, computed once
Serialized == [packet \in Responses |-> serialize(packet, default_registry)]

\* Client.publish(topic, packet, qos=qos, properties=properties): the packet
\* is serialized before anything is sent
publish(topic, packet, qos, properties) ==
    The({IF serialized.error.kind # "none" THEN Sent(serialized.error.kind, <<>>)
         ELSE Sent("none",
                   <<[topic |-> topic, payload |-> serialized.value.v, qos |-> qos,
                      CorrelationData |-> properties.CorrelationData,
                      UserProperty |-> properties.UserProperty]>>) :
         serialized \in {Serialized[packet]}})

\* __send_response that publishes without looking at the response topic
send_response_Always(response, response_topic, qos, properties) ==
    publish(response_topic,
            IF response.type = "Message" THEN PyBytes(response.v) ELSE response,
            qos, properties)

\* __send_response: nothing is published without a response topic
send_response(response, response_topic, qos, properties) ==
    IF response_topic = None THEN Sent("none", <<>>)
    ELSE publish(response_topic,
                 IF response.type = "Message" THEN PyBytes(response.v) ELSE response,
                 qos, properties)

\* successive calls of __send_response, up to the first one that raises
RECURSIVE send_responses(_, _, _)
send_responses(responses, message, properties) ==
    IF responses = <<>> THEN Sent("none", <<>>)
    ELSE The({IF first.error # "none" THEN first
              ELSE The({Sent(rest.error, first.sent \o rest.sent) :
                        rest \in {send_responses(Tail(responses), message,
                                                 properties)}}) :
              first \in {send_response(Head(responses), message.ResponseTopic,
                                       message.qos, properties)}})

\* the error that route(**kwargs) and the body of the handler raise, "none"
\* when the handler returns or its generator finishes
invocation_error(route, kwargs, behaviour) ==
    IF CallError(route.handler, kwargs).rule = "arguments do not fit the signature"
    THEN "TypeError"
    ELSE IF behaviour.raises # "none" THEN behaviour.raises
    ELSE IF HandlerDefs[route.handler].kind = "function" THEN "TypeError"
    ELSE "none"

\* the values an async generator yields before it finishes or raises
yielded(route, kwargs, behaviour) ==
    IF /\ HandlerDefs[route.handler].kind = "asyncgen"
       /\ CallError(route.handler, kwargs).rule # "arguments do not fit the signature"
    THEN SubSeq(YieldValues, 1, behaviour.yields)
    ELSE <<>>

\* the responses the try block sends if nothing raises: each value an async
\* generator yields and then None, or the value a coroutine returns
responses(route, kwargs, behaviour) ==
    yielded(route, kwargs, behaviour)
    \o (IF invocation_error(route, kwargs, behaviour) # "none" THEN <<>>
        ELSE IF HandlerDefs[route.handler].kind = "asyncgen" THEN <<PyNone>>
        ELSE <<behaviour.returns>>)

\* the try block for one route: the error that ends it is that of the first
\* response that cannot be sent, or else that of the handler
try_block(route, kwargs, message, properties, behaviour) ==
    The({IF sending.error # "none" THEN sending
         ELSE Sent(invocation_error(route, kwargs, behaviour), sending.sent) :
         sending \in {send_responses(responses(route, kwargs, behaviour), message,
                                     properties)}})

\* the response and the properties of the except branch without the marker
error_response_Unmarked(error, properties) ==
    [response |-> IF error \in exception_handlers THEN MQTTErrorMessage
                  ELSE repr(error),
     properties |-> properties]

\* the response and the properties of the except branch
error_response(error, properties) ==
    IF error \in exception_handlers
    THEN [response |-> MQTTErrorMessage,
          properties |-> [properties EXCEPT !.UserProperty =
                             <<<<Str("error"), str_of_code(MQTTErrorCode)>>>>]]
    ELSE [response |-> repr(error),
          properties |-> [properties EXCEPT !.UserProperty =
                             <<<<Str("error"), Str("None")>>>>]]

\* find_user_property(field, user_properties): the value of the first pair
\* whose key is the field, None without one
find_user_property(field, user_properties) ==
    IF \E i \in 1..Len(user_properties) : user_properties[i][1] = field
    THEN user_properties[Min({i \in 1..Len(user_properties) :
                                 user_properties[i][1] = field})][2]
    ELSE None

\* str.isdigit() of a string of ASCII characters
isdigit(string) == string # <<>> /\ Chars(string) \subseteq Digits

\* int(string) of a string of decimal digits
RECURSIVE int(_)
int(string) ==
    IF string = <<>> THEN 0
    ELSE int(SubSeq(string, 1, Len(string) - 1)) * 10
         + (CHOOSE d \in 0..9 : Str("0123456789")[d + 1] = string[Len(string)])

\* check_for_errors(properties, payload) on the side of the requester: the
\* MQTTError it raises, with its error code, or "none"
check_for_errors(properties, payload) ==
    The({IF error_code # None
         THEN [raises |-> "MQTTError",
               error_code |-> IF isdigit(error_code) THEN PyInt(int(error_code))
                              ELSE PyNone]
         ELSE [raises |-> "none", error_code |-> PyNone] :
         error_code \in {find_user_property(Str("error"), properties.UserProperty)}})

\* the except branch: the response for an error raised in the try block
except_block(error, message, properties) ==
    send_responses(<<error_response(error, properties).response>>, message,
                   error_response(error, properties).properties)

\* one iteration of the loop over the routes: the error that leaves it and
\* the responses published, with the handler, the error of its invocation
\* and the error of the try block
handle_route(route, message, injectors, behaviour) ==
    The({The({The({[handler |-> route.handler,
                    invoked |-> invocation_error(route, kwargs, behaviour),
                    tried |-> tried.error,
                    error |-> IF tried.error = "none" THEN "none"
                              ELSE caught.error,
                    sent |-> IF tried.error = "none" THEN tried.sent
                             ELSE tried.sent \o caught.sent] :
                   caught \in {IF tried.error = "none" THEN Sent("none", <<>>)
                                ELSE except_block(tried.error, message,
                                                  Properties(message))}}) :
              tried \in {try_block(route, kwargs, message, Properties(message),
                                   behaviour)}}) :
         kwargs \in {get_route_parameters(route, message.payload, injectors)}})

\* the loop over the routes of __handle, which an error ends: the outcome
\* of each iteration that began
RECURSIVE handle_routes(_, _, _, _)
handle_routes(rs, message, injectors, behaviours) ==
    IF rs = <<>> THEN <<>>
    ELSE The({IF first.error # "none" THEN <<first>>
              ELSE <<first>> \o handle_routes(Tail(rs), message, injectors,
                                              Tail(behaviours)) :
              first \in {handle_route(Head(rs), message, injectors,
                                      Head(behaviours))}})

\* the responses of the iterations, in the order of publication
RECURSIVE all_sent(_)
all_sent(iterations) ==
    IF iterations = <<>> THEN <<>>
    ELSE Head(iterations).sent \o all_sent(Tail(iterations))

\* the handlers whose body ran in the loop over the routes
RECURSIVE handled_calls(_, _, _)
handled_calls(rs, message, injectors) ==
    IF rs = <<>> THEN <<>>
    ELSE LET kwargs == get_route_parameters(Head(rs), message.payload, injectors)
         IN  (IF CallError(Head(rs).handler, kwargs).rule
                    # "arguments do not fit the signature"
              THEN <<[handler |-> Head(rs).handler, arguments |-> kwargs]>>
              ELSE <<>>)
             \o handled_calls(Tail(rs), message, injectors)

\* the outcome record of __handle
Handled(message, error, calls, iterations) ==
    [message |-> message, iterations |-> iterations]
    @@ [Idle EXCEPT !.op = "handle", !.topic = message.topic,
                    !.qos = message.qos, !.error = error, !.calls = calls]

\* one iteration of __listen: await self.__handle(message); an error that
\* __handle raises ends __listen
Handle(message, injectors, behaviours) ==
    /\ listening
    /\ Len(published) < MaxPublished
    /\ Len(behaviours) = IF message.payload.type # "bytes" THEN 0
                         ELSE Len(routes_for(message.topic, message.qos))
    /\ IF message.payload.type # "bytes"
       THEN /\ last' = Handled(message, TypeError("unimplemented payload type"),
                               <<>>, <<>>)
            /\ listening' = FALSE
            /\ UNCHANGED published
       ELSE IF routings(message.topic) = {}
       THEN /\ last' = Handled(message,
                               [kind |-> "ValueError", rule |-> "routings not found",
                                names |-> {}], <<>>, <<>>)
            /\ listening' = FALSE
            /\ UNCHANGED published
       ELSE IF routes_for(message.topic, message.qos) = <<>>
       THEN /\ last' = Handled(message,
                               [kind |-> "ValueError", rule |-> "routes not found",
                                names |-> {}], <<>>, <<>>)
            /\ listening' = FALSE
            /\ UNCHANGED published
       ELSE \E out \in {handle_routes(routes_for(message.topic, message.qos),
                                      message, injectors, behaviours)} :
               /\ last' = Handled(message,
                                  IF out[Len(out)].error = "none" THEN NoError
                                  ELSE [kind |-> out[Len(out)].error,
                                        rule |-> "response not sent", names |-> {}],
                                  handled_calls(routes_for(message.topic, message.qos),
                                                message, injectors),
                                  out)
               /\ Len(published) + Len(all_sent(out)) <= MaxPublished
               /\ published' = published \o all_sent(out)
               /\ listening' = (out[Len(out)].error = "none")
    /\ UNCHANGED <<routerVars, subrouters, codecVars>>

AppNext ==
    \/ \E t \in AppTemplates, h \in AppHandlers,
          q \in {AT_MOST_ONCE, AT_LEAST_ONCE} : Route(t, h, q)
    \/ \E m \in Messages :
          LET message == [m EXCEPT !.topic = full_pattern(prefix, @)]
              called == IF message.payload.type # "bytes" THEN {}
                        ELSE {r \in routings(message.topic) : r.qos = message.qos}
          IN  \E e \in [1..Cardinality(called) -> HandlerOutcomes],
                 y \in YieldCounts(called) :
                 Handle(message, <<>>,
                        [k \in 1..Cardinality(called) |->
                            [yields |-> y, raises |-> e[k].raises,
                             returns |-> e[k].returns]])
    \/ \E p \in Packets : Dispatch(full_pattern(prefix, Str("x")), p, <<>>)

\* FastCC.__init__ constructs its router without a prefix
AppInit == Init /\ prefix = <<>>

AppSpec == AppInit /\ [][AppNext]_vars

-----------------------------------------------------------------------------
(* The functions of the default registry applied to generated inputs       *)

MaxPayloadLen == 3

MaxFloatLen == 9

PayloadBytes == {0, 1, 2, 65, 128, 169, 195, 255}

\* every payload of up to MaxPayloadLen bytes
ShortPayloads == UNION {[1..n -> PayloadBytes] : n \in 0..MaxPayloadLen}

\* payloads around the length of a float: 3.141592653589793 and a NaN among them
LongPayloads ==
    {[i \in 1..n |-> b] : n \in 7..MaxFloatLen, b \in {0, 255}}
    \cup {<<64, 9, 33, 251, 84, 68, 45, 24>>, <<127, 248, 0, 0, 0, 0, 0, 0>>}

\* the tag bytes: the seven registered ones, 7 and 255
GeneratedTags == 0..7 \cup {MAX_CODEC_TAG}

\* the long payloads go to every tag but INT, whose values of seven bytes
\* and more are beyond 32 bits
GeneratedData ==
    {<<>>}
    \cup {<<tag>> \o payload : tag \in GeneratedTags, payload \in ShortPayloads}
    \cup {<<tag>> \o payload : tag \in GeneratedTags \ {TypeTag.INT},
                               payload \in LongPayloads}

\* the module-level default_registry
DefaultInit ==
    /\ RouterInit
    /\ prefix = <<>>
    /\ codecs_by_order = default_registry.by_order
    /\ codecs_by_tag = default_registry.by_tag
    /\ registering = None

DecodeNext ==
    /\ last.op = "idle"
    /\ \E data \in GeneratedData : DecodeData(data)

DecodeSpec == DefaultInit /\ [][DecodeNext]_vars

MaxValueLen == 2

MaxIntBytes == 2

\* 2^n
RECURSIVE Pow2(_)
Pow2(n) == IF n = 0 THEN 1 ELSE 2 * Pow2(n - 1)

\* the integers around zero and around the limits of 1..MaxIntBytes bytes
GeneratedIntegers ==
    (-130..130)
    \cup {(sign * Pow2(bits)) + d :
             sign \in {-1, 1}, d \in -2..2,
             bits \in UNION {{(8 * k) - 1, 8 * k} : k \in 1..MaxIntBytes}}

\* code points of 1, 2, 3 and 4 bytes in UTF-8, and a lone surrogate
GeneratedCodePoints == {97, 233, 8364, 55296, 66376}

\* 0.0, -0.0, 1.5, -2.25, the smallest subnormal, the largest finite float,
\* Infinity, -Infinity and a NaN
GeneratedFloats ==
    {PyFloat(0, 0, <<0, 0, 0, 0, 0, 0, 0>>), PyFloat(1, 0, <<0, 0, 0, 0, 0, 0, 0>>),
     PyFloat(0, 1023, <<8, 0, 0, 0, 0, 0, 0>>), PyFloat(1, 1024, <<2, 0, 0, 0, 0, 0, 0>>),
     PyFloat(0, 0, <<0, 0, 0, 0, 0, 0, 1>>),
     PyFloat(0, 2046, <<15, 255, 255, 255, 255, 255, 255>>),
     PyFloat(0, 2047, <<0, 0, 0, 0, 0, 0, 0>>), PyFloat(1, 2047, <<0, 0, 0, 0, 0, 0, 0>>),
     PyFloat(0, 2047, <<8, 0, 0, 0, 0, 0, 0>>)}

\* values of every built-in kind
GeneratedValues ==
    {PyNone, PyBool(TRUE), PyBool(FALSE)}
    \cup {PyInt(n) : n \in GeneratedIntegers}
    \cup {PyBytes(b) : b \in UNION {[1..n -> PayloadBytes] : n \in 0..MaxValueLen}}
    \cup {PyStr(t) : t \in UNION {[1..n -> GeneratedCodePoints] : n \in 0..MaxValueLen}}
    \cup GeneratedFloats
    \cup {PyMessage(b) : b \in UNION {[1..n -> PayloadBytes] : n \in 0..1}}

\* deserialize(serialize(value)) with the default registry
RoundTrip(value) ==
    LET registry == Registry(codecs_by_order, codecs_by_tag)
        serialized == serialize(value, registry)
        out == IF serialized.error.kind # "none" THEN serialized
               ELSE deserialize(serialized.value.v, registry)
    IN  /\ last' = [CodecCall("roundtrip") EXCEPT !.value = value,
                       !.data = serialized.value.v, !.error = out.error,
                       !.result = out.value]
        /\ UNCHANGED <<routerVars, subrouters, appVars, codecVars>>

RoundTripNext ==
    /\ last.op = "idle"
    /\ \E value \in GeneratedValues : RoundTrip(value)

RoundTripSpec == DefaultInit /\ [][RoundTripNext]_vars

\* _decode_int(_encode_int(value))
IntegerCodec(integer) ==
    LET payload == encode_int(PyInt(integer))
        out == decode_int(payload.value.v)
    IN  /\ last' = [CodecCall("int") EXCEPT !.value = PyInt(integer),
                       !.data = payload.value.v, !.error = out.error,
                       !.result = out.value]
        /\ UNCHANGED <<routerVars, subrouters, appVars, codecVars>>

IntegerNext ==
    /\ last.op = "idle"
    /\ \E integer \in GeneratedIntegers : IntegerCodec(integer)

IntegerSpec == DefaultInit /\ [][IntegerNext]_vars

SizeMargin == 2

\* lengths of data: the shortest ones and those around the size limit
GeneratedLengths ==
    (0..SizeMargin)
    \cup ((MAX_PAYLOAD_SIZE + 1 - SizeMargin)..(MAX_PAYLOAD_SIZE + 1 + SizeMargin))

\* deserialize(data) for data of length bytes that starts with the byte tag,
\* as far as the length and the tag decide it: the error that deserialize or
\* the tag lookup raises, and the codec the payload is handed to otherwise
DeserializeSized(tag, length) ==
    LET rejected == rejected_by_deserialize(length)
        known == tag \in DOMAIN codecs_by_tag
    IN  /\ last' = [length |-> length, tag |-> tag]
                   @@ [CodecCall("deserialize") EXCEPT
                          !.error = IF rejected.kind # "none" THEN rejected
                                    ELSE IF ~known
                                    THEN SerializationError("Unrecognised type tag")
                                    ELSE NoError,
                          !.codec = IF rejected.kind = "none" /\ known
                                    THEN codecs_by_tag[tag] ELSE Codec("", PyNone)]
        /\ UNCHANGED <<routerVars, subrouters, appVars, codecVars>>

DeserializeNext ==
    /\ last.op = "idle"
    /\ \E tag \in 0..MAX_CODEC_TAG, length \in GeneratedLengths \ {0} :
          DeserializeSized(tag, length)

DeserializeSpec == DefaultInit /\ [][DeserializeNext]_vars

-----------------------------------------------------------------------------
(* Properties *)

\* the routes of the router that match a topic
MatchingRoutes(topic) == {r \in routes : fullmatch(r.regex, topic).matched}

\* the route a registration call router.route(t)(h) stands for
RouteOf(topic_pattern, handler) ==
    {r \in routes : /\ r.topic_pattern = full_pattern(prefix, topic_pattern)
                    /\ r.handler = handler}

\* C1: when several registered routes match the dispatched topic, dispatch
\* invokes exactly one handler, and it is the handler of the matching route
\* that was registered earliest, whatever the order of registration.
C1_EarliestRegisteredMatchWins ==
    (/\ last.op = "dispatch"
     /\ last.error.kind = "none"
     /\ Cardinality(MatchingRoutes(last.topic)) >= 2)
    => /\ Len(last.calls) = 1
       /\ last.calls[1].handler =
             regOrder[Min(MatchingPositions(regOrder, last.topic))].handler

\* whether a segment is exactly a placeholder "{name}"
IsPlaceholder(segment) ==
    /\ Len(segment) >= 3
    /\ segment[1] = "{" /\ segment[Len(segment)] = "}"
    /\ segment[2] \in IdentStart
    /\ \A i \in 2..(Len(segment) - 1) : segment[i] \in IdentChar

PlaceholderName(segment) == SubSeq(segment, 2, Len(segment) - 1)

EndsInWildcard(template) ==
    LET ts == split(template) IN ts[Len(ts)] = <<MULTI_LEVEL_WILDCARD>>

\* the topic has the structure of the template: literal segments equal, each
\* placeholder segment replaced by a non-empty separator-free string, a
\* trailing "#" replaced by a non-empty remainder
HasStructure(template, topic) ==
    LET ts == split(template)
        us == split(topic)
        n == Len(ts)
        SegmentFits(i) == IF IsPlaceholder(ts[i]) THEN us[i] # <<>> ELSE us[i] = ts[i]
    IN  IF EndsInWildcard(template)
        THEN /\ Len(us) >= n
             /\ \A i \in 1..(n - 1) : SegmentFits(i)
             /\ join(SubSeq(us, n, Len(us))) # <<>>
        ELSE /\ Len(us) = n
             /\ \A i \in 1..n : SegmentFits(i)

\* the strings substituted for the parameters of the template in the topic
Substituted(template, topic) ==
    LET ts == split(template)
        us == split(topic)
        n == Len(ts)
        at == {i \in 1..n : IsPlaceholder(ts[i])}
        names == {PlaceholderName(ts[i]) : i \in at}
                 \cup (IF EndsInWildcard(template) THEN {WILDCARD_PARAMETER_NAME} ELSE {})
    IN  [nm \in names |->
            IF nm = WILDCARD_PARAMETER_NAME
            THEN join(SubSeq(us, n, Len(us)))
            ELSE us[CHOOSE i \in at : PlaceholderName(ts[i]) = nm]]

\* C2: the matcher of a valid template matches a topic iff the topic has the
\* template's structure, and then returns exactly the substituted strings,
\* the remainder under "wildcard".
C2_MatcherIffStructure ==
    (last.op = "match" /\ last.error.kind = "none")
    => /\ last.matched <=> HasStructure(last.pattern, last.topic)
       /\ last.matched =>
             \A nm \in DOMAIN Substituted(last.pattern, last.topic) :
                /\ nm \in DOMAIN last.groups
                /\ last.groups[nm] = Substituted(last.pattern, last.topic)[nm]

\* the parameter names a template declares: its placeholder segments, and
\* "wildcard" when it ends in "#"
TemplateParams(template) ==
    LET ts == split(template)
    IN  {PlaceholderName(ts[i]) : i \in {j \in 1..Len(ts) : IsPlaceholder(ts[j])}}
        \cup (IF EndsInWildcard(template) THEN {WILDCARD_PARAMETER_NAME} ELSE {})

\* the template passes pattern validation and names no parameter twice
PatternAccepted(template) ==
    /\ validate_topic_pattern(template).kind = "none"
    /\ LET ts == split(template)
       IN  \A i, j \in 1..Len(ts) :
              (i < j /\ IsPlaceholder(ts[i]) /\ IsPlaceholder(ts[j]))
              => PlaceholderName(ts[i]) # PlaceholderName(ts[j])

\* all the parameter names of a handler
HandlerParams(handler) ==
    {signature(handler)[i].name : i \in 1..Len(signature(handler))}

\* the parameters of a handler that are neither path parameters of the
\* template nor keyword-only
PayloadCandidates(handler, template) ==
    {signature(handler)[i].name :
        i \in {j \in 1..Len(signature(handler)) :
                 /\ signature(handler)[j].name \notin TemplateParams(template)
                 /\ signature(handler)[j].kind # KEYWORD_ONLY}}

\* the last operation registered last.handler under last.pattern and the
\* checks on the pattern and on the path parameters of the handler passed
ReachedPayloadCheck ==
    /\ last.op = "route"
    /\ PatternAccepted(full_pattern(prefix, last.pattern))
    /\ TemplateParams(full_pattern(prefix, last.pattern)) \subseteq HandlerParams(last.handler)

\* C3: registration admits a handler iff at most one of its parameters is
\* neither a path parameter nor keyword-only; that parameter, if any, is the
\* payload parameter; two or more are rejected with an error listing them.
C3_AtMostOnePayloadParameter ==
    (ReachedPayloadCheck /\ iscoroutinefunction(last.handler))
    => LET payload == PayloadCandidates(last.handler,
                                        full_pattern(prefix, last.pattern))
       IN  IF Cardinality(payload) <= 1
           THEN /\ last.error.kind = "none"
                /\ RouteOf(last.pattern, last.handler) # {}
                /\ \A r \in RouteOf(last.pattern, last.handler) :
                      IF payload = {} THEN r.packet_parameter = None
                      ELSE r.packet_parameter \in payload
           ELSE last.error =
                   RouteValidationError("more than one packet parameter", payload)

\* the arguments a handler must receive on a match
ExpectedArguments(route, topic, packet, injectors) ==
    LET payload == PayloadCandidates(route.handler, route.topic_pattern)
        injected == NamesOfKinds(signature(route.handler), {KEYWORD_ONLY})
                    \ TemplateParams(route.topic_pattern)
    IN  [n \in TemplateParams(route.topic_pattern) \cup payload \cup injected |->
            IF n \in TemplateParams(route.topic_pattern)
            THEN Substituted(route.topic_pattern, topic)[n]
            ELSE IF n \in payload THEN packet ELSE injectors[n]]

\* C4: with handler greet(name, count, *, db) registered under
\* "greet/{name}", dispatch("greet/alice", 5, db={}) invokes it exactly once
\* with name="alice", count=5, db={}; on every match the handler receives the
\* captured path parameters, the payload and the injected entries, no more.
C4_GreetAliceEndToEnd ==
    [][/\ (/\ last.op = "route"
           /\ last.pattern = Str("greet/{name}")
           /\ last.handler = "greet"
           /\ last'.op = "dispatch"
           /\ last'.topic = Str("greet/alice")
           /\ last'.packet = Str("5")
           /\ last'.injectors = (Str("db") :> Str("{}")))
          => last'.calls =
                <<[handler |-> "greet",
                   arguments |-> (Str("name") :> Str("alice"))
                                 @@ (Str("count") :> Str("5"))
                                 @@ (Str("db") :> Str("{}"))]>>
       /\ (last'.op = "dispatch" /\ last'.matched /\ last'.error.kind = "none")
          => /\ Len(last'.calls) = 1
             /\ \E r \in routes :
                   /\ r.handler = last'.calls[1].handler
                   /\ last'.calls[1].arguments =
                         ExpectedArguments(r, last'.topic, last'.packet,
                                           last'.injectors)]_vars

\* the rules of _validate_topic_pattern
TemplateRules ==
    {"topic pattern cannot be empty",
     "single-level wildcard is not allowed",
     "multi-level wildcard must occupy entire segment",
     "multi-level wildcard must be the last segment",
     "path-parameters must occupy the entire segment",
     "path-parameter name is reserved"}

RejectedAsTemplate ==
    /\ last.error.kind = "RouteValidationError"
    /\ last.error.rule \in TemplateRules
    /\ routes = {}

\* C5: registering the empty template is rejected with the empty-pattern
\* validation error, with or without a prefix, and no route is added.
C5_EmptyTemplateRejected ==
    (last.op = "route" /\ last.pattern = <<>>)
    => /\ last.error = RouteValidationError("topic pattern cannot be empty", {})
       /\ routes = {}

\* "#" in a non-final segment, or sharing its segment with other characters
MisplacedWildcard(template) ==
    LET ts == split(template)
    IN  \E i \in 1..Len(ts) :
           /\ MULTI_LEVEL_WILDCARD \in Chars(ts[i])
           /\ (i # Len(ts) \/ ts[i] # <<MULTI_LEVEL_WILDCARD>>)

StrayBrace(template) ==
    LET ts == split(template)
    IN  \E i \in 1..Len(ts) :
           /\ Chars(ts[i]) \cap {"{", "}"} # {}
           /\ (~IsPlaceholder(ts[i])
               \/ PlaceholderName(ts[i]) = WILDCARD_PARAMETER_NAME)

\* C7: a template with a brace segment that is not exactly "{name}", or with
\* the reserved placeholder name, is rejected with a route validation error
\* at registration and never compiled as a literal.
C7_StrayBraceRejected ==
    (last.op = "route" /\ StrayBrace(last.pattern)) => RejectedAsTemplate

\* the template names a path parameter in two segments
DuplicateParameter(template) ==
    LET ts == split(template)
    IN  \E i, j \in 1..Len(ts) :
           /\ i < j /\ IsPlaceholder(ts[i]) /\ IsPlaceholder(ts[j])
           /\ PlaceholderName(ts[i]) = PlaceholderName(ts[j])

\* C8: a template that uses a path-parameter name twice is rejected at
\* registration with the route validation error, no other kind of error,
\* and no route is added.
C8_DuplicateParameterRejected ==
    (last.op = "route" /\ DuplicateParameter(last.pattern))
    => /\ last.error.kind = "RouteValidationError"
       /\ routes = {}

C10_StreamingHandlerAdmitted ==
    /\ (/\ ReachedPayloadCheck
        /\ HandlerDefs[last.handler].kind = "asyncgen"
        /\ Cardinality(PayloadCandidates(last.handler,
                                         full_pattern(prefix, last.pattern))) <= 1)
       => /\ last.error.kind = "none"
          /\ RouteOf(last.pattern, last.handler) # {}
    /\ (last.op = "route" /\ last.error.rule = "must be an async function")
       => HandlerDefs[last.handler].kind = "function"
    /\ (/\ last.op = "dispatch" /\ last.matched
        /\ HandlerDefs[last.handler].kind = "asyncgen")
       => last.error.kind = "none"

\* C12: every successful registration adds one route: the collection is one
\* larger after it, also when the same template, handler and delivery options
\* were registered before.
C12_RegistrationAddsOneRoute ==
    [][(last'.op = "route" /\ last'.error.kind = "none")
       => Cardinality(routes') = Cardinality(routes) + 1]_vars

\* C13: after a.add_router(b), a's routes are the union of a's previous
\* routes and b's routes, b's routes are unchanged, a second a.add_router(b)
\* changes nothing, and two routers added one after the other give the same
\* routes in either order.
C13_AddRouterIsUnion ==
    [][last'.op = "add_router"
       => /\ routes' = routes \cup subrouters[last'.router]
          /\ subrouters' = subrouters
          /\ (last.op = "add_router" /\ last.router = last'.router)
             => routes' = routes
          /\ last.op = "add_router"
             => routes' = last.before \cup subrouters[last.router]
                             \cup subrouters[last'.router]]_vars

C13_Witness ==
    /\ last.op = "add_router"
    /\ last.before # {}
    /\ subrouters[last.router] \ last.before # {}
    /\ subrouters[last.router] \cap last.before # {}
    /\ routes = last.before \cup subrouters[last.router]

\* C11: a message on a topic that matches no registered route gives the
\* no-route outcome: no handler is invoked, neither Router.dispatch nor the
\* application's message handling raises, and later messages are processed.
C11_NoRouteIsNoError ==
    /\ (last.op = "dispatch" /\ MatchingRoutes(last.topic) = {})
       => (last.error.kind = "none" /\ last.calls = <<>>)
    /\ (/\ last.op = "handle"
        /\ last.message.payload.type = "bytes"
        /\ MatchingRoutes(last.topic) = {})
       => (last.error.kind = "none" /\ last.calls = <<>> /\ listening)

\* the registry the last call was made on, and the one it left
RegistryNow == Registry(codecs_by_order, codecs_by_tag)

\* the tag of the codec is not an integer, or is a boolean
NotAnIntegerTag(codec) == codec.tag.type # "int"

TagOutOfRange(codec) ==
    codec.tag.type = "int" /\ (codec.tag.v[1] < 0 \/ codec.tag.v[1] > 255)

\* the positions of a probe order that hold a codec with the tag of codec
PositionsOfTag(by_order, codec) ==
    {i \in 1..Len(by_order) : by_order[i].tag = codec.tag}

\* C14: register fails with a serialization error when the codec's tag is
\* not an integer (a boolean included), is outside 0..255, or is already
\* registered and override is false; the probe order and the tag index are
\* then what they were before the call.
C14_RegisterRejectsBadTag ==
    (/\ last.op = "register"
     /\ \/ NotAnIntegerTag(last.codec)
        \/ TagOutOfRange(last.codec)
        \/ (PositionsOfTag(last.before.by_order, last.codec) # {} /\ ~last.override))
    => /\ last.error.kind = "SerializationError"
       /\ RegistryNow = last.before

C14_Witness ==
    /\ last.op = "register"
    /\ ~last.override
    /\ PositionsOfTag(last.before.by_order, last.codec) # {}
    /\ last.codec \notin SeqToSet(last.before.by_order)
    /\ last.error.rule = "Codec tag already registered"
    /\ RegistryNow = last.before

\* C15: register with override=True for a registered tag replaces the old
\* codec in place: the probe order keeps its length, the new codec is at the
\* old one's position, the other positions are unchanged, the tag index maps
\* the tag to the new codec, and there is exactly one codec for the tag.
C15_OverrideReplacesInPlace ==
    (/\ last.op = "register"
     /\ last.override
     /\ PositionsOfTag(last.before.by_order, last.codec) # {})
    => LET old == last.before.by_order
           at == PositionsOfTag(old, last.codec)
       IN  /\ last.error.kind = "none"
           /\ Len(codecs_by_order) = Len(old)
           /\ Cardinality(at) = 1
           /\ \A i \in 1..Len(old) :
                 codecs_by_order[i] = IF i \in at THEN last.codec ELSE old[i]
           /\ DOMAIN codecs_by_tag = DOMAIN last.before.by_tag
           /\ \A t \in DOMAIN codecs_by_tag :
                 codecs_by_tag[t] = IF t = last.codec.tag.v[1] THEN last.codec
                                    ELSE last.before.by_tag[t]

C15_Witness ==
    /\ last.op = "register"
    /\ last.override
    /\ Len(last.before.by_order) >= 3
    /\ PositionsOfTag(last.before.by_order, last.codec) = {2}
    /\ last.before.by_order[2] # last.codec
    /\ codecs_by_order[2] = last.codec
    /\ codecs_by_tag[last.codec.tag.v[1]] = last.codec

\* C16: encode returns the tag byte of the first codec of the probe order that
\* accepts the value, followed by that codec's payload, whatever later codecs
\* accept; when no codec accepts it fails with a serialization error naming
\* the type of the value; the default registry encodes a boolean with tag 5.
C16_EncodeUsesFirstAccepting ==
    last.op = "encode"
    => LET probe == last.before.by_order
           accepting == {i \in 1..Len(probe) : can_encode(probe[i], last.value)}
           first == probe[Min(accepting)]
       IN  /\ accepting = {}
              => /\ last.error.kind = "SerializationError"
                 /\ last.error.names = {Str(last.value.type)}
           /\ (accepting # {} /\ encode(first, last.value).error.kind = "none")
              => /\ last.error.kind = "none"
                 /\ last.result =
                       PyBytes(<<first.tag.v[1]>> \o encode(first, last.value).value.v)
           /\ (last.before = default_registry /\ last.value.type = "bool")
              => /\ last.error.kind = "none"
                 /\ last.result.v[1] = TypeTag.BOOL

C16_Witness ==
    /\ last.op = "encode"
    /\ last.value = PyBool(TRUE)
    /\ Cardinality({i \in 1..Len(last.before.by_order) :
                       can_encode(last.before.by_order[i], last.value)}) >= 2
    /\ can_encode(last.before.by_order[1], last.value)
    /\ last.result = PyBytes(<<last.before.by_order[1].tag.v[1], 1>>)

\* the seven codecs of the default registry
BuiltinCodecs == {builtins[i] : i \in DOMAIN builtins}

\* the inputs the specification lists as failing with the default registry
ListedDecodeFailure(data) ==
    \/ data = <<>>
    \/ /\ data # <<>>
       /\ LET tag == data[1]
              payload == Tail(data)
          IN  \/ tag \notin {codec.tag.v[1] : codec \in BuiltinCodecs}
              \/ tag = TypeTag.NONE /\ payload # <<>>
              \/ tag = TypeTag.BOOL /\ payload \notin {<<0>>, <<1>>}
              \/ tag = TypeTag.FLOAT /\ Len(payload) # 8
              \/ tag = TypeTag.INT /\ Len(payload) = 0
              \/ tag = TypeTag.STR /\ ~DecodeFrom(payload, 1).ok

\* C17: decoding a byte string with the default registry returns a value or
\* raises SerializationError and nothing else; it raises exactly for empty
\* input, an unregistered first byte, a non-empty none payload, a boolean
\* payload other than 0x00 and 0x01, a float payload not 8 bytes long, an
\* empty integer payload and text that is not valid UTF-8; otherwise the
\* outcome is that of the codec registered for the tag on the bytes after it.
C17_DecodeFailsOnlyWithSerializationError ==
    last.op = "decode" =>
        /\ last.error.kind \in {"none", "SerializationError"}
        /\ (last.error.kind = "SerializationError") <=> ListedDecodeFailure(last.data)
        /\ ~ListedDecodeFailure(last.data) =>
              LET codec == CHOOSE c \in BuiltinCodecs : c.tag.v[1] = last.data[1]
              IN  /\ decode(codec, Tail(last.data)).error.kind = "none"
                  /\ last.result = decode(codec, Tail(last.data)).value
                  /\ last.data[1] \in {TypeTag.BYTES, TypeTag.PROTOBUF} =>
                        last.result = PyBytes(Tail(last.data))
                  /\ last.data[1] = TypeTag.BOOL =>
                        last.result = PyBool(Tail(last.data) = <<1>>)

\* text that is not valid UTF-8 was decoded and SerializationError was raised
C17_Witness ==
    /\ last.op = "decode"
    /\ last.data = <<TypeTag.STR, 195>>
    /\ last.error.kind = "SerializationError"

\* float("nan") and every other NaN: the exponent bits all set, the mantissa not zero
IsNaN(value) ==
    /\ value.type = "float"
    /\ value.v[2] = 2047
    /\ \E i \in 3..Len(value.v) : value.v[i] # 0

\* 0.0 and -0.0
IsZero(value) ==
    /\ value.type = "float"
    /\ value.v[2] = 0
    /\ \A i \in 3..Len(value.v) : value.v[i] = 0

\* text with a code point in U+D800..U+DFFF
HasSurrogate(value) ==
    /\ value.type = "str"
    /\ \E i \in 1..Len(value.v) : value.v[i] >= 55296 /\ value.v[i] <= 57343

\* a == b for two values of the same built-in kind
PyEquals(a, b) ==
    IF a.type = "float"
    THEN ~IsNaN(a) /\ ~IsNaN(b) /\ (a.v = b.v \/ (IsZero(a) /\ IsZero(b)))
    ELSE a.v = b.v

\* C18 as stated: for every value v of a built-in kind, structured messages
\* included, deserialize(serialize(v)) equals v and has the kind of v.
C18_RoundTripOfEveryKind ==
    last.op = "roundtrip" =>
        /\ last.error.kind = "none"
        /\ last.result.type = last.value.type
        /\ PyEquals(last.result, last.value)

\* C18: for every value v that is None, bytes, an integer, a boolean, a float
\* other than NaN or text without surrogates, with a payload within the size
\* limit, deserialize(serialize(v)) equals v and has the kind of v; a NaN
\* comes back as a NaN, which is not equal to v; serialize
\* raises UnicodeEncodeError for text with a surrogate; a structured message
\* comes back as bytes, its serialized form.
C18_RoundTripOfBuiltinValues ==
    (last.op = "roundtrip" /\ ~exceeds_limit(Len(last.data))) =>
        CASE last.value.type = "Message" ->
                /\ last.error.kind = "none"
                /\ last.result = PyBytes(last.value.v)
          [] HasSurrogate(last.value) ->
                last.error.kind = "UnicodeEncodeError"
          [] IsNaN(last.value) ->
                /\ last.error.kind = "none"
                /\ IsNaN(last.result)
                /\ ~PyEquals(last.result, last.value)
          [] OTHER ->
                /\ last.error.kind = "none"
                /\ last.result.type = last.value.type
                /\ PyEquals(last.result, last.value)
                /\ last.value.type # "float" => last.result = last.value

\* True went through serialize and deserialize and came back as True
C18_Witness ==
    /\ last.op = "roundtrip"
    /\ last.value = PyBool(TRUE)
    /\ last.data = <<TypeTag.BOOL, 1>>
    /\ last.result = PyBool(TRUE)

\* the n low bytes of the two's-complement representation decode to integer
DecodesFrom(integer, n) == decode_int(to_bytes(integer, n)).value = PyInt(integer)

\* C19: for every integer v the payload of the integer codec has
\* (bit_length(v) + 8) // 8 bytes, no shorter byte string decodes to v, and
\* the payload decodes to v.
C19_IntegerPayloadIsMinimal ==
    last.op = "int" =>
        LET integer == last.value.v[1]
        IN  /\ Len(last.data) = (bit_length(integer) + 8) \div 8
            /\ \A n \in 1..(Len(last.data) - 1) : ~DecodesFrom(integer, n)
            /\ last.error.kind = "none"
            /\ last.result = last.value

\* C20: deserialize raises SerializationError for every input with more than
\* MAX_PAYLOAD_SIZE bytes after the tag byte, whatever the tag byte is and
\* before a codec is looked up; an input with exactly MAX_PAYLOAD_SIZE bytes
\* after the tag is not rejected for its size: it reaches the tag lookup.
C20_SizeGuardPrecedesCodecs ==
    last.op = "deserialize" =>
        /\ last.length - 1 > MAX_PAYLOAD_SIZE =>
              /\ last.error = SerializationError("Payload size exceeds maximum limit")
              /\ last.codec = Codec("", PyNone)
        /\ last.length - 1 = MAX_PAYLOAD_SIZE =>
              /\ last.error.rule # "Payload size exceeds maximum limit"
              /\ last.tag \in DOMAIN default_registry.by_tag =>
                    /\ last.error.kind = "none"
                    /\ last.codec = default_registry.by_tag[last.tag]
              /\ last.tag \notin DOMAIN default_registry.by_tag =>
                    last.error = SerializationError("Unrecognised type tag")

\* an input of one byte more than the limit after a registered tag was rejected
C20_Witness ==
    /\ last.op = "deserialize"
    /\ last.tag = TypeTag.BYTES
    /\ last.length = MAX_PAYLOAD_SIZE + 2
    /\ last.error.kind = "SerializationError"

\* C21: a failure raised while a message is handled never leaves the message
\* loop: for a message that has routes, __handle ends without an error and
\* the loop goes on to the next message.
C21_FailureNeverEscapesTheLoop ==
    (last.op = "handle" /\ routes_for(last.message.topic, last.message.qos) # <<>>)
        => (last.error.kind = "none" /\ listening)

\* the response carries the 'error' user property
CarriesError(response) ==
    find_user_property(Str("error"), response.UserProperty) # None

\* the response is the one the except branch of the iteration published
ErrorResponseOf(iteration, j) ==
    iteration.tried # "none" /\ iteration.error = "none" /\ j = Len(iteration.sent)

StreamRequested ==
    /\ last.op = "route"
    /\ HandlerDefs[last.handler].kind = "asyncgen"
    /\ last'.op = "handle"
    /\ last'.message.topic = full_pattern(prefix, last.pattern)
    /\ last'.message.qos = last.qos
    /\ last'.message.payload.type = "bytes"
    /\ last'.message.ResponseTopic # None

\* the payloads of published responses, and those of the given values
Payloads(sent) == [j \in 1..Len(sent) |-> sent[j].payload]

PayloadsOf(values) ==
    [j \in 1..Len(values) |-> serialize(values[j], default_registry).value.v]

\* C23: a request routed to a streaming handler invokes it, and when the
\* handler produces v1..vn and finishes, the responses published for it are
\* v1, ..., vn in order followed by one terminal None response, none of them
\* marked as an error, also when n = 0.
C23_StreamEndsWithOneSentinel ==
    [][StreamRequested =>
          \E i \in 1..Len(last'.iterations) :
             /\ last'.iterations[i].handler = last.handler
             /\ last'.iterations[i].invoked = "none" =>
                   /\ \E n \in 0..MaxYields :
                         Payloads(last'.iterations[i].sent)
                            = PayloadsOf(SubSeq(YieldValues, 1, n) \o <<PyNone>>)
                   /\ \A j \in 1..Len(last'.iterations[i].sent) :
                         ~CarriesError(last'.iterations[i].sent[j])]_vars

\* C29: a request routed to a streaming handler invokes it, and when the
\* handler raises after producing k values, the responses published for it
\* are those k values in order followed by one error-marked response, which
\* is the last: no terminal None response follows.
C29_StreamEndsWithOneErrorResponse ==
    [][StreamRequested =>
          \E i \in 1..Len(last'.iterations) :
             /\ last'.iterations[i].handler = last.handler
             /\ last'.iterations[i].invoked # "none" =>
                   \E k \in 0..MaxYields :
                      /\ Len(last'.iterations[i].sent) = k + 1
                      /\ SubSeq(Payloads(last'.iterations[i].sent), 1, k)
                            = PayloadsOf(SubSeq(YieldValues, 1, k))
                      /\ \A j \in 1..(k + 1) :
                            CarriesError(last'.iterations[i].sent[j]) <=> j = k + 1]_vars


C24_OverrideIsAtomic ==
    last.op \in {"encode", "decode"} =>
        \A i \in 1..Len(last.before.by_order) :
            last.before.by_order[i].tag.v[1] \in DOMAIN last.before.by_tag
                => last.before.by_tag[last.before.by_order[i].tag.v[1]]
                       = last.before.by_order[i]


\* C25: after any sequence of constructor, register and clone calls the probe
\* order holds no two codecs with the same tag, the tag index maps a tag to a
\* codec exactly when that is the codec with the tag in the probe order, and
\* so what encode produces for a value is decoded by the codec that encoded
\* it.
C25_OneCodecPerTag ==
    /\ \A i, j \in 1..Len(codecs_by_order) :
          codecs_by_order[i].tag = codecs_by_order[j].tag => i = j
    /\ DOMAIN codecs_by_tag
          = {codecs_by_order[i].tag.v[1] : i \in 1..Len(codecs_by_order)}
    /\ \A i \in 1..Len(codecs_by_order) :
          codecs_by_tag[codecs_by_order[i].tag.v[1]] = codecs_by_order[i]
    /\ \A value \in EncodeValues :
          \E encoded \in {registry_encode(RegistryNow, value)} :
             encoded.error.kind = "none" =>
                \E codec \in {codecs_by_order[Min(Accepting(codecs_by_order, value))]} :
                   /\ codecs_by_tag[encoded.value.v[1]] = codec
                   /\ registry_decode(RegistryNow, encoded.value.v)
                         = decode(codec, Tail(encoded.value.v))

\* the clone of a registry in which a codec of the default registry was
\* overridden and to which a codec was added
C25_Witness ==
    /\ last.op = "clone"
    /\ last.error.kind = "none"
    /\ Len(codecs_by_order) > Len(default_registry.by_order)
    /\ \E i \in 1..Len(default_registry.by_order) :
          /\ codecs_by_order[i] # default_registry.by_order[i]
          /\ codecs_by_order[i].tag = default_registry.by_order[i].tag


\* C26: the assertion of _Route._get_packet_parameter never fails for a
\* route that Router.route admits: for every pattern that passes
\* _validate_topic_pattern the path-parameter names _validate_route_handler
\* uses are the names of the groups of the regex _compile_topic_pattern
\* builds, and an admitted handler has at most one packet-parameter candidate
\* with respect to the groups of the compiled regex.
C26_AssertionNeverFails ==
    last.op = "route" =>
        \E full \in {full_pattern(prefix, last.pattern)} :
           /\ last.error.kind # "AssertionError"
           /\ validate_topic_pattern(full).kind = "none" =>
                 path_parameter_names(full) = SeqToSet(GroupNames(RegexPattern(full)))
           /\ last.error.kind = "none" =>
                 /\ RouteOf(last.pattern, last.handler) # {}
                 /\ \A r \in RouteOf(last.pattern, last.handler) :
                       /\ r.path_parameters = path_parameter_names(full)
                       /\ Cardinality(non_path_parameters(last.handler,
                                                          r.path_parameters)) <= 1
                       /\ get_packet_parameter(last.handler,
                                               r.path_parameters).error.kind = "none"

\* a route with a trailing '#' whose handler takes the packet as well
C26_Witness ==
    /\ last.op = "route"
    /\ last.error.kind = "none"
    /\ \E r \in RouteOf(last.pattern, last.handler) :
          /\ WILDCARD_PARAMETER_NAME \in r.path_parameters
          /\ r.packet_parameter # None


\* C27: a router without a prefix stores the template unchanged as the topic
\* pattern of the route, subscribes to the template with each placeholder
\* replaced by '+', and dispatches a topic equal to a registered template
\* without parameters to its handler; a router with a prefix stores the
\* prefix, a separator and the template.
C27_NoPrefixKeepsTemplate ==
    /\ (last.op = "route" /\ last.error.kind = "none") =>
          \E r \in routes :
             /\ r.handler = last.handler
             /\ r.topic_pattern = IF prefix = <<>> THEN last.pattern
                                  ELSE prefix \o <<TOPIC_SEPARATOR>> \o last.pattern
             /\ prefix = <<>> => r.topic = topic_pattern_to_topic(last.pattern)
    /\ (/\ last.op = "dispatch"
        /\ prefix = <<>>
        /\ path_parameter_names(last.topic) = {}
        /\ \E t \in Templates, h \in Handlers :
              /\ t = last.topic
              /\ RouteOutcomes[prefix, t, h].error.kind = "none"
              /\ RouteOutcomes[prefix, t, h].route \in routes)
       => (last.error.kind = "none" /\ last.calls # <<>>)

=============================================================================
